---- MODULE Spec2Model ----
(***************************************************************************)
(* Model of the diagram core of ij: the diagram IR, the validator          *)
(* and linter (ij/validation.py), the diff / merge engine                  *)
(* (ij/git_integration.py) and the layout engine (ij/layout).              *)
(*                                                                         *)
(* A Python set has no defined iteration order, so every operation that    *)
(* builds a list by iterating a set is modelled as the SET of results it   *)
(* can return, one per iteration order.                                    *)
(***************************************************************************)
EXTENDS Integers, Sequences, FiniteSets, TLC

VARIABLES diagrams, op, arg, result, changes, merged, positions, lint_issues,
          transitions, path

vars == <<diagrams, op, arg, result, changes, merged, positions, lint_issues,
          transitions, path>>

(***************************************************************************)
(* Generic helpers: Python lists, dicts and sets.                          *)
(***************************************************************************)

\* Python's None, for an optional string.
None == "<None>"

Range(s) == {s[i] : i \in 1..Len(s)}

\* Every order in which a Python set S can be iterated.
Orderings(S) ==
    {o \in [1..Cardinality(S) -> S] : \A i, j \in 1..Cardinality(S) : o[i] = o[j] => i = j}

\* A dict is a sequence of <<key, value>> pairs in insertion order, keys unique.
DictKeys(d) == {d[i][1] : i \in 1..Len(d)}

DictGet(d, k) == d[CHOOSE i \in 1..Len(d) : d[i][1] = k][2]

\* d[k] = v : a new key is appended, an existing key keeps its position.
DictPut(d, k, v) ==
    IF k \in DictKeys(d)
    THEN [i \in 1..Len(d) |-> IF d[i][1] = k THEN <<k, v>> ELSE d[i]]
    ELSE Append(d, <<k, v>>)

\* {key(x): x for x in s} for the keys already computed in ks (ks[i] = key(s[i])).
RECURSIVE DictFrom(_, _, _)
DictFrom(d, ks, s) ==
    IF s = <<>> THEN d
    ELSE DictFrom(DictPut(d, Head(ks), Head(s)), Tail(ks), Tail(s))

\* s[:n]
Take(s, n) == SubSeq(s, 1, IF Len(s) < n THEN Len(s) ELSE n)

\* list(d.values())
DictValues(d) == [i \in 1..Len(d) |-> d[i][2]]

(***************************************************************************)
(* The diagram IR (ij/core.py): a container of nodes and edges.            *)
(***************************************************************************)

Slots == {"base", "d1", "d2"}

\* A metadata map is the set of its <<key, value>> items.
NoMetadata == {}

DiagramIR(metadata) == [nodes |-> <<>>, edges |-> <<>>, metadata |-> metadata]

add_node(diagram, node) == [diagram EXCEPT !.nodes = Append(@, node)]

add_edge(diagram, edge) == [diagram EXCEPT !.edges = Append(@, edge)]

Node(id, label, node_type, metadata) ==
    [id |-> id, label |-> label, node_type |-> node_type, metadata |-> metadata]

Edge(source, target, label, edge_type) ==
    [source |-> source, target |-> target, label |-> label, edge_type |-> edge_type]

NodeIds(diagram) == {diagram.nodes[i].id : i \in 1..Len(diagram.nodes)}

Size(diagram) == Len(diagram.nodes) + Len(diagram.edges)

TotalSize == Size(diagrams["base"]) + Size(diagrams["d1"]) + Size(diagrams["d2"])

(***************************************************************************)
(* Bounds and input universes.                                             *)
(***************************************************************************)

\* Nodes and edges added over the two diagrams of a compare run.
MaxCompareItems == 4

\* Nodes and edges added over the three diagrams of a merge run.
MaxMergeItems == 4

\* Nodes and edges of the diagram of a layout run.
MaxLayoutItems == 5

\* Nodes of the diagram of a lint run.
MaxLintItems == 6

\* Nodes and edges of the diagram on which the structural rules are run.
MaxRuleItems == 6

\* Nodes and edges of the diagram that is laid out in layers.
MaxLayerItems == 6

\* Nodes of the diagram that is laid out on a grid.
MaxGridNodes == 5

\* Transitions of the state machine and events of a simulation.
MaxTransitions == 3

MaxEvents == 3

\* Nodes and edges added over the three diagrams when every operation is run.
MaxPureItems == 4

\* Node versions: id a with each of label, kind and metadata varied, and id b.
DiffNodes ==
    { Node("a", "Step A", "process", NoMetadata),
      Node("a", "Step A (Updated)", "process", NoMetadata),
      Node("a", "Step A", "decision", NoMetadata),
      Node("a", "Step A", "process", {<<"color", "red">>}),
      Node("b", "Step B", "process", NoMetadata) }

\* Edges: one endpoint pair under each label form and kind, and a second pair.
DiffEdges ==
    { Edge("a", "a", None, "normal"),
      Edge("a", "a", "", "normal"),
      Edge("a", "a", "yes", "normal"),
      Edge("a", "a", None, "conditional"),
      Edge("a", "b", None, "normal") }

\* Nodes and edges added to the diagram of a validation run.
MaxValItems == 4

\* Nodes of each kind, two of them sharing a label, one without label.
ValNodes ==
    { Node("a", "A", "process", NoMetadata),
      Node("a", "A", "start", NoMetadata),
      Node("b", "B", "end", NoMetadata),
      Node("b", "A", "process", NoMetadata),
      Node("c", "", "process", NoMetadata) }

\* Edges: a self-loop, a 2-cycle, a 3-cycle; an end that is no node is dangling.
ValEdges ==
    { Edge("a", "a", None, "normal"),
      Edge("a", "b", None, "normal"),
      Edge("b", "a", None, "normal"),
      Edge("b", "c", None, "normal"),
      Edge("c", "a", None, "normal") }

(***************************************************************************)
(* DiagramDiff.compare (ij/git_integration.py).                            *)
(***************************************************************************)

DiagramChanges(an, rn, mn, ae, re, me) ==
    [added_nodes |-> an, removed_nodes |-> rn, modified_nodes |-> mn,
     added_edges |-> ae, removed_edges |-> re, modified_edges |-> me]

has_changes(c) ==
    \/ c.added_nodes # <<>>
    \/ c.removed_nodes # <<>>
    \/ c.modified_nodes # <<>>
    \/ c.added_edges # <<>>
    \/ c.removed_edges # <<>>
    \/ c.modified_edges # <<>>

total_changes(c) ==
    Len(c.added_nodes) + Len(c.removed_nodes) + Len(c.modified_nodes)
    + Len(c.added_edges) + Len(c.removed_edges) + Len(c.modified_edges)

\* {n.id: n for n in diagram.nodes}
nodes_by_id(diagram) ==
    DictFrom(<<>>, [i \in 1..Len(diagram.nodes) |-> diagram.nodes[i].id], diagram.nodes)

\* A label that is None or "" is falsy: label or "".
label_or_empty(label) == IF label = None \/ label = "" THEN "" ELSE label

\* Mutant: the label is used as it is.
edge_key_raw_label(e) == <<e.source, e.target, e.label, e.edge_type>>

edge_key(e) == <<e.source, e.target, label_or_empty(e.label), e.edge_type>>

\* {edge_key(e): e for e in diagram.edges}
edges_by_key(diagram) ==
    DictFrom(<<>>, [i \in 1..Len(diagram.edges) |-> edge_key(diagram.edges[i])], diagram.edges)

\* Mutant: only the label is compared.
node_modified_label_only(n1, n2) == n1.label # n2.label

\* The test of the modified-node scan.
node_modified(n1, n2) ==
    \/ n1.label # n2.label
    \/ n1.node_type # n2.node_type
    \/ n1.metadata # n2.metadata

\* nodes1.keys() & nodes2.keys()
common_keys(d1, d2) == DictKeys(d1) \cap DictKeys(d2)

\* Mutant: no key is found added.
added_keys_none(d1, d2) == {}

\* Mutant: the keys of the first version are not subtracted.
added_keys_all(d1, d2) == DictKeys(d2)

\* nodes2.keys() - nodes1.keys(), and the same for the edge dicts.
added_keys(d1, d2) == DictKeys(d2) \ DictKeys(d1)

\* Mutant: the keys of the second version are not subtracted.
removed_keys_all(d1, d2) == DictKeys(d1)

\* nodes1.keys() - nodes2.keys(), and the same for the edge dicts.
removed_keys(d1, d2) == DictKeys(d1) \ DictKeys(d2)

\* The results compare can return, one per iteration order of its key sets.
compare(diagram1, diagram2) ==
    LET nodes1 == nodes_by_id(diagram1)
        nodes2 == nodes_by_id(diagram2)
        edges1 == edges_by_key(diagram1)
        edges2 == edges_by_key(diagram2)
        common == common_keys(nodes1, nodes2)
        modified == {id \in common :
                        node_modified(DictGet(nodes1, id), DictGet(nodes2, id))}
    IN  { DiagramChanges(
            [i \in 1..Len(oa) |-> DictGet(nodes2, oa[i])],
            [i \in 1..Len(or) |-> DictGet(nodes1, or[i])],
            [i \in 1..Len(om) |-> <<DictGet(nodes1, om[i]), DictGet(nodes2, om[i])>>],
            [i \in 1..Len(ea) |-> DictGet(edges2, ea[i])],
            [i \in 1..Len(er) |-> DictGet(edges1, er[i])],
            <<>>) :
          oa \in Orderings(added_keys(nodes1, nodes2)),
          or \in Orderings(removed_keys(nodes1, nodes2)),
          om \in Orderings(modified),
          ea \in Orderings(added_keys(edges1, edges2)),
          er \in Orderings(removed_keys(edges1, edges2)) }

(***************************************************************************)
(* DiagramDiff.merge (ij/git_integration.py).                              *)
(***************************************************************************)

\* Mutant: nodes_dict.setdefault(node.id, node), the first node of an id is kept.
RECURSIVE put_nodes_keep_first(_, _)
put_nodes_keep_first(nodes_dict, nodes) ==
    IF nodes = <<>> THEN nodes_dict
    ELSE put_nodes_keep_first(
            IF Head(nodes).id \in DictKeys(nodes_dict) THEN nodes_dict
            ELSE DictPut(nodes_dict, Head(nodes).id, Head(nodes)),
            Tail(nodes))

\* for node in nodes: nodes_dict[node.id] = node
RECURSIVE put_nodes(_, _)
put_nodes(nodes_dict, nodes) ==
    IF nodes = <<>> THEN nodes_dict
    ELSE put_nodes(DictPut(nodes_dict, Head(nodes).id, Head(nodes)), Tail(nodes))

\* Mutant: edges are told apart by their endpoints alone.
RECURSIVE union_edges_by_endpoints(_, _, _)
union_edges_by_endpoints(kept, edge_set, edges) ==
    IF edges = <<>> THEN kept
    ELSE LET sig == <<Head(edges).source, Head(edges).target>>
         IN  IF sig \notin edge_set
             THEN union_edges_by_endpoints(Append(kept, Head(edges)), edge_set \cup {sig},
                                           Tail(edges))
             ELSE union_edges_by_endpoints(kept, edge_set, Tail(edges))

\* The edge scan of _merge_union: an edge is kept when its signature is new.
RECURSIVE union_edges(_, _, _)
union_edges(kept, edge_set, edges) ==
    IF edges = <<>> THEN kept
    ELSE LET sig == edge_key(Head(edges))
         IN  IF sig \notin edge_set
             THEN union_edges(Append(kept, Head(edges)), edge_set \cup {sig}, Tail(edges))
             ELSE union_edges(kept, edge_set, Tail(edges))

\* Mutant: the loop over branch1's nodes is missing.
_merge_union_without_branch1(base, branch1, branch2) ==
    [nodes |-> DictValues(put_nodes(put_nodes(<<>>, base.nodes), branch2.nodes)),
     edges |-> union_edges(<<>>, {}, base.edges \o branch1.edges \o branch2.edges),
     metadata |-> branch1.metadata]

_merge_union(base, branch1, branch2) ==
    LET nodes_dict == put_nodes(put_nodes(put_nodes(<<>>, base.nodes), branch1.nodes),
                                branch2.nodes)
    IN  [nodes |-> DictValues(nodes_dict),
         edges |-> union_edges(<<>>, {}, base.edges \o branch1.edges \o branch2.edges),
         metadata |-> branch1.metadata]

\* edge_sig of _merge_intersection: the endpoint pair alone.
edge_sig(e) == <<e.source, e.target>>

\* {edge_sig(e): e for e in diagram.edges}
edges_by_sig(diagram) ==
    DictFrom(<<>>, [i \in 1..Len(diagram.edges) |-> edge_sig(diagram.edges[i])], diagram.edges)

\* Mutant: the endpoints are not checked against the surviving nodes.
kept_sigs_unchecked(edges1, edges2, common_nodes) ==
    DictKeys(edges1) \cap DictKeys(edges2)

\* The signatures whose edge _merge_intersection keeps.
kept_sigs(edges1, edges2, common_nodes) ==
    {sig \in DictKeys(edges1) \cap DictKeys(edges2) :
        sig[1] \in common_nodes /\ sig[2] \in common_nodes}

\* The results _merge_intersection can return, one per iteration order of its sets.
_merge_intersection(base, branch1, branch2) ==
    LET common_nodes == NodeIds(branch1) \cap NodeIds(branch2)
        nodes_dict == nodes_by_id(branch1)
        edges1 == edges_by_sig(branch1)
        edges2 == edges_by_sig(branch2)
    IN  { [nodes |-> [i \in 1..Len(on) |-> DictGet(nodes_dict, on[i])],
           edges |-> [i \in 1..Len(oe) |-> DictGet(edges1, oe[i])],
           metadata |-> base.metadata] :
          on \in Orderings(common_nodes),
          oe \in Orderings(kept_sigs(edges1, edges2, common_nodes)) }

Returned(value) == [raised |-> "", value |-> value]

Raised(error) == [raised |-> error, value |-> DiagramIR(NoMetadata)]

\* merge with the final else branch falling back to the union strategy.
merge_fallback_union(base, branch1, branch2, strategy) ==
    IF strategy = "ours" THEN {Returned(branch1)}
    ELSE IF strategy = "theirs" THEN {Returned(branch2)}
    ELSE IF strategy = "intersection"
         THEN {Returned(m) : m \in _merge_intersection(base, branch1, branch2)}
    ELSE {Returned(_merge_union(base, branch1, branch2))}

\* The outcomes of merge: the diagrams it can return, or the error it raises.
merge(base, branch1, branch2, strategy) ==
    IF strategy = "ours" THEN {Returned(branch1)}
    ELSE IF strategy = "theirs" THEN {Returned(branch2)}
    ELSE IF strategy = "union" THEN {Returned(_merge_union(base, branch1, branch2))}
    ELSE IF strategy = "intersection"
         THEN {Returned(m) : m \in _merge_intersection(base, branch1, branch2)}
    ELSE {Raised("ValueError")}

(***************************************************************************)
(* The layout engine (ij/layout): a coordinate map is a dict from node id  *)
(* to <<x, y>>.                                                            *)
(***************************************************************************)

\* An outcome of apply that is an error raised to the caller.
Failed(error) == [raised |-> error, value |-> <<>>]

\* radius * fn(2 * pi * i / n) + radius, kept as its terms: fn is cos or sin.
OnCircle(fn, radius, i, n) == [fn |-> fn, radius |-> radius, i |-> i, n |-> n]

\* for i, node in enumerate(diagram.nodes), from index i on.
RECURSIVE circular_each(_, _, _, _, _)
circular_each(placed, nodes, i, n, radius) ==
    IF i = Len(nodes) THEN Returned(placed)
    ELSE IF n = 0 THEN Failed("ZeroDivisionError")
    ELSE circular_each(
             DictPut(placed, nodes[i + 1].id,
                     <<OnCircle("cos", radius, i, n), OnCircle("sin", radius, i, n)>>),
             nodes, i + 1, n, radius)

_circular_layout(diagram) ==
    LET n == Len(diagram.nodes)
        radius == IF 200 < n * 30 THEN n * 30 ELSE 200
    IN  circular_each(<<>>, diagram.nodes, 0, n, radius)

\* ceil_sqrt rounding down.
floor_sqrt(n) == CHOOSE c \in 0..n : c * c <= n /\ (c + 1) * (c + 1) > n

\* math.ceil(math.sqrt(n))
ceil_sqrt(n) == CHOOSE c \in 0..n : c * c >= n /\ (c = 0 \/ (c - 1) * (c - 1) < n)

RECURSIVE grid_each(_, _, _, _)
grid_each(placed, nodes, i, cols) ==
    IF i = Len(nodes) THEN Returned(placed)
    ELSE IF cols = 0 THEN Failed("ZeroDivisionError")
    ELSE LET row == i \div cols
             col == i % cols
         IN  grid_each(DictPut(placed, nodes[i + 1].id, <<col * 150 + 50, row * 100 + 50>>),
                       nodes, i + 1, cols)

_grid_layout(diagram) ==
    grid_each(<<>>, diagram.nodes, 0, ceil_sqrt(Len(diagram.nodes)))

\* HierarchicalLayout(direction, layer_spacing, node_spacing)
HierarchicalLayout(direction, layer_spacing, node_spacing) ==
    [direction |-> direction, layer_spacing |-> layer_spacing, node_spacing |-> node_spacing]

\* node in adj.get(pred, []) for a pred of nodes that is not processed
has_unprocessed_pred(node, nodes, edges, processed) ==
    \E pred \in nodes \ processed :
        \E i \in 1..Len(edges) : edges[i].source = pred /\ edges[i].target = node

\* ready_nodes taking every remaining node as free.
ready_nodes_all(nodes, edges, remaining, processed) == remaining

\* The nodes a pass of the while loop finds free of unprocessed predecessors.
ready_nodes(nodes, edges, remaining, processed) ==
    {node \in remaining : ~has_unprocessed_pred(node, nodes, edges, processed)}

\* layer_members placing one node when none is free.
layer_members_one_by_one(nodes, edges, remaining, processed) ==
    IF ready_nodes(nodes, edges, remaining, processed) = {}
    THEN {CHOOSE node \in remaining : TRUE}
    ELSE ready_nodes(nodes, edges, remaining, processed)

\* The set the pass turns into a layer: the free nodes, or all that remain.
layer_members(nodes, edges, remaining, processed) ==
    IF ready_nodes(nodes, edges, remaining, processed) = {}
    THEN remaining
    ELSE ready_nodes(nodes, edges, remaining, processed)

\* The while loop of _assign_layers: remaining is a set, so a layer lists its
\* members in whatever order the set is iterated.
RECURSIVE assign_remaining(_, _, _, _)
assign_remaining(nodes, edges, remaining, processed) ==
    IF remaining = {} THEN {<<>>}
    ELSE LET members == layer_members(nodes, edges, remaining, processed)
         IN  {<<current_layer>> \o layers :
                 current_layer \in Orderings(members),
                 layers \in assign_remaining(nodes, edges, remaining \ members,
                                             processed \cup members)}

_assign_layers(nodes, edges) == assign_remaining(nodes, edges, nodes, {})

\* (node_idx - layer_size / 2) * node_spacing + 300, for an even node_spacing
across_layer(node_idx, layer_size, node_spacing) ==
    ((2 * node_idx - layer_size) * node_spacing) \div 2 + 300

\* position_of without the inversion of the layer index for BT and RL.
position_of_forward(layout, layer_idx, n_layers, node_idx, layer_size) ==
    LET across == across_layer(node_idx, layer_size, layout.node_spacing)
        forward == layer_idx * layout.layer_spacing + 50
    IN  IF layout.direction \in {"TB", "BT"} THEN <<across, forward>> ELSE <<forward, across>>

position_of(layout, layer_idx, n_layers, node_idx, layer_size) ==
    LET across == across_layer(node_idx, layer_size, layout.node_spacing)
        forward == layer_idx * layout.layer_spacing + 50
        backward == (n_layers - layer_idx - 1) * layout.layer_spacing + 50
    IN  IF layout.direction \in {"TB", "BT"}
        THEN <<across, IF layout.direction = "BT" THEN backward ELSE forward>>
        ELSE <<IF layout.direction = "RL" THEN backward ELSE forward, across>>

RECURSIVE position_layer(_, _, _, _, _, _)
position_layer(placed, layout, layer, layer_idx, n_layers, node_idx) ==
    IF node_idx = Len(layer) THEN placed
    ELSE position_layer(
             DictPut(placed, layer[node_idx + 1],
                     position_of(layout, layer_idx, n_layers, node_idx, Len(layer))),
             layout, layer, layer_idx, n_layers, node_idx + 1)

RECURSIVE position_layers(_, _, _, _)
position_layers(placed, layout, layers, layer_idx) ==
    IF layer_idx = Len(layers) THEN placed
    ELSE position_layers(
             position_layer(placed, layout, layers[layer_idx + 1], layer_idx, Len(layers), 0),
             layout, layers, layer_idx + 1)

_position_nodes(layout, layers) == position_layers(<<>>, layout, layers, 0)

\* HierarchicalLayout.compute: the coordinate maps it can return.
hierarchical_compute(layout, diagram) ==
    IF diagram.nodes = <<>> THEN {Returned(<<>>)}
    ELSE {Returned(_position_nodes(layout, layers)) :
             layers \in _assign_layers(NodeIds(diagram), diagram.edges)}

\* The coordinates a force-directed run may end on, after the shift that
\* brings the least x and the least y to 50.
ForceCoordinates == {50, 120}

\* The ids of nodes in first-insertion order: the keys of the positions dict.
RECURSIVE ids_in_order(_, _)
ids_in_order(seen, nodes) ==
    IF nodes = <<>> THEN seen
    ELSE ids_in_order(IF Head(nodes).id \in Range(seen) THEN seen
                      ELSE Append(seen, Head(nodes).id), Tail(nodes))

\* ForceDirectedLayout.compute: adjacent[edge.source] and adjacent[edge.target]
\* are looked up for every edge; the start positions are random, so the run
\* ends on any coordinates whose least x and least y are 50.
force_directed_compute(diagram) ==
    IF \E i \in 1..Len(diagram.edges) :
           diagram.edges[i].source \notin NodeIds(diagram)
           \/ diagram.edges[i].target \notin NodeIds(diagram)
    THEN {Failed("KeyError")}
    ELSE LET ids == ids_in_order(<<>>, diagram.nodes)
         IN  {Returned([i \in 1..Len(ids) |-> <<ids[i], at[ids[i]]>>]) :
                 at \in {f \in [Range(ids) -> ForceCoordinates \X ForceCoordinates] :
                            Range(ids) # {} =>
                                /\ \E id \in Range(ids) : f[id][1] = 50
                                /\ \E id \in Range(ids) : f[id][2] = 50}}

\* LayoutEngine(algorithm, **kwargs)
LayoutEngine(algorithm, params) == [algorithm |-> algorithm, params |-> params]

\* apply with the final else branch falling back to the grid layout.
apply_fallback_grid(engine, diagram) ==
    IF engine.algorithm = "force-directed" THEN force_directed_compute(diagram)
    ELSE IF engine.algorithm = "hierarchical" THEN hierarchical_compute(engine.params, diagram)
    ELSE IF engine.algorithm = "circular" THEN {_circular_layout(diagram)}
    ELSE {_grid_layout(diagram)}

\* LayoutEngine.apply: the outcomes of a call.
apply(engine, diagram) ==
    IF engine.algorithm = "force-directed" THEN force_directed_compute(diagram)
    ELSE IF engine.algorithm = "hierarchical" THEN hierarchical_compute(engine.params, diagram)
    ELSE IF engine.algorithm = "circular" THEN {_circular_layout(diagram)}
    ELSE IF engine.algorithm = "grid" THEN {_grid_layout(diagram)}
    ELSE {Failed("ValueError")}

(***************************************************************************)
(* Strings that the validator parses or builds are sequences of            *)
(* characters, so that startswith, split, int and str are computed.        *)
(***************************************************************************)

Digits == <<"0", "1", "2", "3", "4", "5", "6", "7", "8", "9">>

DigitValue(c) == (CHOOSE i \in 1..10 : Digits[i] = c) - 1

IsDigit(c) == c \in Range(Digits)

\* s.startswith(prefix)
startswith(s, prefix) ==
    Len(s) >= Len(prefix) /\ SubSeq(s, 1, Len(prefix)) = prefix

\* s.split("-")[-1] : what follows the last hyphen (all of s when it has none).
RECURSIVE last_segment(_)
last_segment(s) ==
    IF s = <<>> THEN <<>>
    ELSE IF s[Len(s)] = "-" THEN <<>>
    ELSE Append(last_segment(SubSeq(s, 1, Len(s) - 1)), s[Len(s)])

\* s.strip() for the blank character.
RECURSIVE lstrip(_)
lstrip(s) == IF s # <<>> /\ Head(s) = " " THEN lstrip(Tail(s)) ELSE s

RECURSIVE rstrip(_)
rstrip(s) ==
    IF s # <<>> /\ s[Len(s)] = " " THEN rstrip(SubSeq(s, 1, Len(s) - 1)) ELSE s

\* The value of a run of digits with single underscores between digits.
RECURSIVE digits_value(_, _)
digits_value(acc, s) ==
    IF s = <<>> THEN acc
    ELSE IF Head(s) = "_" THEN digits_value(acc, Tail(s))
    ELSE digits_value(acc * 10 + DigitValue(Head(s)), Tail(s))

well_formed_digits(s) ==
    /\ s # <<>>
    /\ \A i \in 1..Len(s) : IsDigit(s[i]) \/ s[i] = "_"
    /\ s[1] # "_" /\ s[Len(s)] # "_"
    /\ \A i \in 1..(Len(s) - 1) : ~(s[i] = "_" /\ s[i + 1] = "_")

\* int(s) with 0 for the texts on which int raises ValueError.
to_int_or_zero(s) ==
    LET t == rstrip(lstrip(s))
        signed == t # <<>> /\ Head(t) \in {"+", "-"}
        body == IF signed THEN Tail(t) ELSE t
    IN  [ok |-> TRUE,
         value |-> IF ~well_formed_digits(body) THEN 0
                   ELSE IF signed /\ Head(t) = "-" THEN 0 - digits_value(0, body)
                   ELSE digits_value(0, body)]

\* int(s): [ok |-> TRUE, value |-> n], or ok = FALSE where int raises ValueError.
to_int(s) ==
    LET t == rstrip(lstrip(s))
        signed == t # <<>> /\ Head(t) \in {"+", "-"}
        body == IF signed THEN Tail(t) ELSE t
    IN  IF well_formed_digits(body)
        THEN [ok |-> TRUE,
              value |-> IF signed /\ Head(t) = "-" THEN 0 - digits_value(0, body)
                        ELSE digits_value(0, body)]
        ELSE [ok |-> FALSE, value |-> 0]

\* str(n)
RECURSIVE nat_to_str(_)
nat_to_str(n) ==
    IF n < 10 THEN <<Digits[n + 1]>>
    ELSE Append(nat_to_str(n \div 10), Digits[(n % 10) + 1])

int_to_str(n) == IF n < 0 THEN <<"-">> \o nat_to_str(0 - n) ELSE nat_to_str(n)

(***************************************************************************)
(* DiagramTransforms (ij/transforms.py): the graph queries the rules use.  *)
(***************************************************************************)

\* The targets of the edges leaving node_id, in edge order.
RECURSIVE successors(_, _)
successors(edges, node_id) ==
    IF edges = <<>> THEN <<>>
    ELSE IF Head(edges).source = node_id
         THEN <<Head(edges).target>> \o successors(Tail(edges), node_id)
         ELSE successors(Tail(edges), node_id)

IndexOf(s, x) == CHOOSE i \in 1..Len(s) : s[i] = x /\ \A j \in 1..(i - 1) : s[j] # x

\* Depth-first search with a recursion stack: a node met again on the stack
\* closes a cycle, reported from its first occurrence back to itself.
RECURSIVE dfs(_, _, _)
RECURSIVE dfs_each(_, _, _)
dfs(edges, node_id, st) ==
    IF node_id \in Range(st.rec_stack)
    THEN [st EXCEPT !.cycles =
             Append(@, SubSeq(st.rec_stack, IndexOf(st.rec_stack, node_id),
                              Len(st.rec_stack)) \o <<node_id>>)]
    ELSE IF node_id \in st.visited THEN st
    ELSE LET entered == [st EXCEPT !.visited = @ \cup {node_id},
                                   !.rec_stack = Append(@, node_id)]
             after == dfs_each(edges, successors(edges, node_id), entered)
         IN  [after EXCEPT !.rec_stack = SubSeq(@, 1, Len(@) - 1)]

dfs_each(edges, ids, st) ==
    IF ids = <<>> THEN st
    ELSE dfs_each(edges, Tail(ids), dfs(edges, Head(ids), st))

\* Every node not yet visited starts a search of its own.
RECURSIVE probe(_, _, _)
probe(edges, nodes, st) ==
    IF nodes = <<>> THEN st
    ELSE IF Head(nodes).id \in st.visited THEN probe(edges, Tail(nodes), st)
    ELSE probe(edges, Tail(nodes), dfs(edges, Head(nodes).id, st))

find_cycles(diagram) ==
    probe(diagram.edges, diagram.nodes,
          [visited |-> {}, rec_stack |-> <<>>, cycles |-> <<>>]).cycles

Max(S) == CHOOSE x \in S : \A y \in S : y <= x

get_statistics(diagram) ==
    [node_count |-> Len(diagram.nodes),
     edge_count |-> Len(diagram.edges),
     max_outgoing_degree |->
        Max({0} \cup {Len(successors(diagram.edges, diagram.nodes[i].id)) :
                        i \in 1..Len(diagram.nodes)})]

(***************************************************************************)
(* DiagramValidator (ij/validation.py).                                    *)
(***************************************************************************)

R_no_orphaned_nodes ==
    <<"n", "o", "-", "o", "r", "p", "h", "a", "n", "e", "d", "-", "n", "o", "d", "e", "s">>

R_no_cycles ==
    <<"n", "o", "-", "c", "y", "c", "l", "e", "s">>

R_require_start_end ==
    <<"r", "e", "q", "u", "i", "r", "e", "-", "s", "t", "a", "r", "t", "-", "e", "n", "d">>

R_max_complexity ==
    <<"m", "a", "x", "-", "c", "o", "m", "p", "l", "e", "x", "i", "t", "y">>

R_unique_node_ids ==
    <<"u", "n", "i", "q", "u", "e", "-", "n", "o", "d", "e", "-", "i", "d", "s">>

R_unique_labels ==
    <<"u", "n", "i", "q", "u", "e", "-", "l", "a", "b", "e", "l", "s">>

R_valid_edges ==
    <<"v", "a", "l", "i", "d", "-", "e", "d", "g", "e", "s">>

R_no_self_loops ==
    <<"n", "o", "-", "s", "e", "l", "f", "-", "l", "o", "o", "p", "s">>

R_connected_graph ==
    <<"c", "o", "n", "n", "e", "c", "t", "e", "d", "-", "g", "r", "a", "p", "h">>

P_max_nodes ==
    <<"m", "a", "x", "-", "n", "o", "d", "e", "s", "-">>

P_max_edges ==
    <<"m", "a", "x", "-", "e", "d", "g", "e", "s", "-">>

\* self.rules, in registration order.
registered_rules ==
    <<R_no_orphaned_nodes, R_no_cycles, R_require_start_end, R_max_complexity,
      R_unique_node_ids, R_unique_labels, R_valid_edges, R_no_self_loops,
      R_connected_graph>>

\* A message is its fixed text and the values formatted into it.
Message(text, ids, nums) == [text |-> text, ids |-> ids, nums |-> nums]

ValidationIssue(severity, message, location, rule) ==
    [severity |-> severity, message |-> message, location |-> location, rule |-> rule]

ValidationResult(is_valid, issues) == [is_valid |-> is_valid, issues |-> issues]

\* ValidationResult.errors and .warnings
RECURSIVE with_severity(_, _)
with_severity(issues, severity) ==
    IF issues = <<>> THEN <<>>
    ELSE IF Head(issues).severity = severity
         THEN <<Head(issues)>> \o with_severity(Tail(issues), severity)
         ELSE with_severity(Tail(issues), severity)

errors(r) == with_severity(r.issues, "error")

warnings(r) == with_severity(r.issues, "warning")

\* The ids that are an endpoint of some edge.
connected_ids(diagram) ==
    {diagram.edges[i].source : i \in 1..Len(diagram.edges)}
    \cup {diagram.edges[i].target : i \in 1..Len(diagram.edges)}

RECURSIVE orphan_issues(_, _)
orphan_issues(nodes, connected) ==
    IF nodes = <<>> THEN <<>>
    ELSE LET node == Head(nodes)
         IN  (IF node.id \notin connected /\ node.node_type \notin {"start", "end"}
              THEN <<ValidationIssue("warning",
                                     Message("Orphaned node", <<node.id, node.label>>, <<>>),
                                     node.id, R_no_orphaned_nodes)>>
              ELSE <<>>)
             \o orphan_issues(Tail(nodes), connected)

\* _check_no_orphaned_nodes counting only the sources of edges as connected.
_check_no_orphaned_nodes_by_source(diagram) ==
    orphan_issues(diagram.nodes, {diagram.edges[i].source : i \in 1..Len(diagram.edges)})

_check_no_orphaned_nodes(diagram) ==
    orphan_issues(diagram.nodes, connected_ids(diagram))

\* _check_no_cycles reporting the cycles as warnings.
_check_no_cycles_as_warning(diagram) ==
    LET cycles == find_cycles(diagram)
    IN  [i \in 1..Len(cycles) |->
            ValidationIssue("warning", Message("Cycle detected", cycles[i], <<>>),
                            None, R_no_cycles)]

_check_no_cycles(diagram) ==
    LET cycles == find_cycles(diagram)
    IN  [i \in 1..Len(cycles) |->
            ValidationIssue("error", Message("Cycle detected", cycles[i], <<>>),
                            None, R_no_cycles)]

_check_require_start_end(diagram) ==
    LET has_start == \E i \in 1..Len(diagram.nodes) : diagram.nodes[i].node_type = "start"
        has_end == \E i \in 1..Len(diagram.nodes) : diagram.nodes[i].node_type = "end"
    IN  (IF ~has_start
         THEN <<ValidationIssue("error", Message("Missing START node", <<>>, <<>>),
                                None, R_require_start_end)>>
         ELSE <<>>)
        \o (IF ~has_end
            THEN <<ValidationIssue("error", Message("Missing END node", <<>>, <<>>),
                                   None, R_require_start_end)>>
            ELSE <<>>)

MaxNodeCount == 50

MaxBranching == 10

_check_max_complexity(diagram) ==
    LET stats == get_statistics(diagram)
    IN  (IF stats.node_count > MaxNodeCount
         THEN <<ValidationIssue("warning",
                                Message("High node count", <<>>, <<stats.node_count>>),
                                None, R_max_complexity)>>
         ELSE <<>>)
        \o (IF stats.max_outgoing_degree > MaxBranching
            THEN <<ValidationIssue("warning",
                                   Message("High branching factor", <<>>,
                                           <<stats.max_outgoing_degree>>),
                                   None, R_max_complexity)>>
            ELSE <<>>)

\* _check_max_nodes that also rejects a diagram with exactly max_nodes nodes.
_check_max_nodes_at_least(diagram, max_nodes) ==
    IF Len(diagram.nodes) >= max_nodes
    THEN <<ValidationIssue("error",
                           Message("Too many nodes", <<>>, <<Len(diagram.nodes), max_nodes>>),
                           None, P_max_nodes \o int_to_str(max_nodes))>>
    ELSE <<>>

_check_max_nodes(diagram, max_nodes) ==
    IF Len(diagram.nodes) > max_nodes
    THEN <<ValidationIssue("error",
                           Message("Too many nodes", <<>>, <<Len(diagram.nodes), max_nodes>>),
                           None, P_max_nodes \o int_to_str(max_nodes))>>
    ELSE <<>>

_check_max_edges(diagram, max_edges) ==
    IF Len(diagram.edges) > max_edges
    THEN <<ValidationIssue("error",
                           Message("Too many edges", <<>>, <<Len(diagram.edges), max_edges>>),
                           None, P_max_edges \o int_to_str(max_edges))>>
    ELSE <<>>

RECURSIVE duplicate_id_issues(_, _)
duplicate_id_issues(nodes, seen_ids) ==
    IF nodes = <<>> THEN <<>>
    ELSE LET node == Head(nodes)
         IN  (IF node.id \in seen_ids
              THEN <<ValidationIssue("error", Message("Duplicate node ID", <<node.id>>, <<>>),
                                     node.id, R_unique_node_ids)>>
              ELSE <<>>)
             \o duplicate_id_issues(Tail(nodes), seen_ids \cup {node.id})

_check_unique_node_ids(diagram) == duplicate_id_issues(diagram.nodes, {})

\* label_counts: the non-empty labels in order of first use, with their counts.
RECURSIVE count_labels(_, _)
count_labels(label_counts, nodes) ==
    IF nodes = <<>> THEN label_counts
    ELSE LET label == Head(nodes).label
         IN  IF label # ""
             THEN count_labels(
                    DictPut(label_counts, label,
                            IF label \in DictKeys(label_counts)
                            THEN DictGet(label_counts, label) + 1 ELSE 1),
                    Tail(nodes))
             ELSE count_labels(label_counts, Tail(nodes))

RECURSIVE duplicate_label_issues(_)
duplicate_label_issues(items) ==
    IF items = <<>> THEN <<>>
    ELSE (IF Head(items)[2] > 1
          THEN <<ValidationIssue("info",
                                 Message("Duplicate label", <<Head(items)[1]>>,
                                         <<Head(items)[2]>>),
                                 None, R_unique_labels)>>
          ELSE <<>>)
         \o duplicate_label_issues(Tail(items))

_check_unique_labels(diagram) ==
    duplicate_label_issues(count_labels(<<>>, diagram.nodes))

RECURSIVE edge_endpoint_issues(_, _)
edge_endpoint_issues(edges, node_ids) ==
    IF edges = <<>> THEN <<>>
    ELSE LET edge == Head(edges)
         IN  (IF edge.source \notin node_ids
              THEN <<ValidationIssue("error",
                                     Message("Edge references non-existent source node",
                                             <<edge.source>>, <<>>),
                                     None, R_valid_edges)>>
              ELSE <<>>)
             \o (IF edge.target \notin node_ids
                 THEN <<ValidationIssue("error",
                                        Message("Edge references non-existent target node",
                                                <<edge.target>>, <<>>),
                                        None, R_valid_edges)>>
                 ELSE <<>>)
             \o edge_endpoint_issues(Tail(edges), node_ids)

_check_valid_edges(diagram) == edge_endpoint_issues(diagram.edges, NodeIds(diagram))

RECURSIVE _check_no_self_loops_of(_)
_check_no_self_loops_of(edges) ==
    IF edges = <<>> THEN <<>>
    ELSE (IF Head(edges).source = Head(edges).target
          THEN <<ValidationIssue("warning",
                                 Message("Self-loop detected on node", <<Head(edges).source>>,
                                         <<>>),
                                 Head(edges).source, R_no_self_loops)>>
          ELSE <<>>)
         \o _check_no_self_loops_of(Tail(edges))

_check_no_self_loops(diagram) == _check_no_self_loops_of(diagram.edges)

\* adj[node_id] of the undirected view: each edge lists each end at the other.
RECURSIVE neighbours(_, _)
neighbours(edges, node_id) ==
    IF edges = <<>> THEN <<>>
    ELSE (IF Head(edges).source = node_id THEN <<Head(edges).target>> ELSE <<>>)
         \o (IF Head(edges).target = node_id THEN <<Head(edges).source>> ELSE <<>>)
         \o neighbours(Tail(edges), node_id)

\* One pass over the neighbours of the node taken off the queue.
RECURSIVE visit_each(_, _, _)
visit_each(ids, visited, queue) ==
    IF ids = <<>> THEN [visited |-> visited, queue |-> queue]
    ELSE IF Head(ids) \notin visited
         THEN visit_each(Tail(ids), visited \cup {Head(ids)}, Append(queue, Head(ids)))
         ELSE visit_each(Tail(ids), visited, queue)

\* The breadth-first search: the set visited when the queue runs empty.
RECURSIVE bfs(_, _, _)
bfs(edges, visited, queue) ==
    IF queue = <<>> THEN visited
    ELSE LET step == visit_each(neighbours(edges, Head(queue)), visited, Tail(queue))
         IN  bfs(edges, step.visited, step.queue)

MaxListed == 5

\* The node ids the search from the first node did not visit.
disconnected_ids(diagram) ==
    IF Len(diagram.nodes) = 0 THEN {}
    ELSE NodeIds(diagram) \ bfs(diagram.edges, {diagram.nodes[1].id}, <<diagram.nodes[1].id>>)

\* order: the iteration order of the set of disconnected ids.
_check_connected_graph(diagram, order) ==
    IF Len(diagram.nodes) = 0 THEN <<>>
    ELSE LET start == diagram.nodes[1].id
             visited == bfs(diagram.edges, {start}, <<start>>)
             all_node_ids == NodeIds(diagram)
         IN  IF Cardinality(visited) < Cardinality(all_node_ids)
             THEN <<ValidationIssue("warning",
                                    Message("Graph not fully connected",
                                            Take(order, MaxListed), <<>>),
                                    None, R_connected_graph)>>
             ELSE <<>>

\* self.rules[rule_name](diagram)
run_rule(rule_name, diagram, order) ==
    IF rule_name = R_no_orphaned_nodes THEN _check_no_orphaned_nodes(diagram)
    ELSE IF rule_name = R_no_cycles THEN _check_no_cycles(diagram)
    ELSE IF rule_name = R_require_start_end THEN _check_require_start_end(diagram)
    ELSE IF rule_name = R_max_complexity THEN _check_max_complexity(diagram)
    ELSE IF rule_name = R_unique_node_ids THEN _check_unique_node_ids(diagram)
    ELSE IF rule_name = R_unique_labels THEN _check_unique_labels(diagram)
    ELSE IF rule_name = R_valid_edges THEN _check_valid_edges(diagram)
    ELSE IF rule_name = R_no_self_loops THEN _check_no_self_loops(diagram)
    ELSE _check_connected_graph(diagram, order)

\* The scan of the rule list: parameterized rules are run on the spot, registered
\* names are queued, every other name is dropped.
RECURSIVE scan_rules(_, _, _)
scan_rules(diagram, rules, acc) ==
    IF rules = <<>> THEN acc
    ELSE LET rule == Head(rules)
             n == to_int(last_segment(rule))
         IN  scan_rules(diagram, Tail(rules),
                IF startswith(rule, P_max_nodes)
                THEN IF n.ok
                     THEN [acc EXCEPT !.issues = @ \o _check_max_nodes(diagram, n.value)]
                     ELSE acc
                ELSE IF startswith(rule, P_max_edges)
                THEN IF n.ok
                     THEN [acc EXCEPT !.issues = @ \o _check_max_edges(diagram, n.value)]
                     ELSE acc
                ELSE IF rule \in Range(registered_rules)
                THEN [acc EXCEPT !.rules_to_run = Append(@, rule)]
                ELSE acc)

RECURSIVE run_rules(_, _, _, _)
run_rules(diagram, rules_to_run, order, issues) ==
    IF rules_to_run = <<>> THEN issues
    ELSE run_rules(diagram, Tail(rules_to_run), order,
                   issues \o run_rule(Head(rules_to_run), diagram, order))

\* Mutant: the baseline pair of the command line is the default.
default_rules_pair == <<R_no_orphaned_nodes, R_no_cycles>>

\* rules is None: rules_to_run = self.rules.keys()
default_rules == registered_rules

\* Mutant: a warning fails validation too.
no_error_nor_warning(issues) ==
    ~\E i \in 1..Len(issues) : issues[i].severity \in {"error", "warning"}

\* not any(i.severity == Severity.ERROR for i in issues)
no_error(issues) == ~\E i \in 1..Len(issues) : issues[i].severity = "error"

\* rules: [default |-> TRUE] for an omitted rule list, else [list |-> the names].
validate_in_order(diagram, rules, order) ==
    LET scanned == IF rules.default
                   THEN [issues |-> <<>>, rules_to_run |-> default_rules]
                   ELSE scan_rules(diagram, rules.list,
                                   [issues |-> <<>>, rules_to_run |-> <<>>])
        issues == run_rules(diagram, scanned.rules_to_run, order, scanned.issues)
    IN  ValidationResult(no_error(issues), issues)

\* The results validate can return, one per iteration order of the disconnected set.
validate(diagram, rules) ==
    {validate_in_order(diagram, rules, order) : order \in Orderings(disconnected_ids(diagram))}


(***************************************************************************)
(* The linter (DiagramLinter): style checks, reported as info.             *)
(***************************************************************************)

L_label_length ==
    <<"l", "a", "b", "e", "l", "-", "l", "e", "n", "g", "t", "h">>

L_naming_conventions ==
    <<"n", "a", "m", "i", "n", "g", "-", "c", "o", "n", "v", "e", "n", "t", "i", "o", "n", "s">>

L_metadata_title ==
    <<"m", "e", "t", "a", "d", "a", "t", "a", "-", "t", "i", "t", "l", "e">>

MaxLabelLength == 50

LabelShown == 40

MaxGeneric == 5

\* s[i - 1] of a Python string, as a string of one character.
char_at(s, i) == SubSeq(s, i, i)

\* node.label[:40]
label_prefix(label) == SubSeq(label, 1, IF Len(label) < LabelShown THEN Len(label) ELSE LabelShown)

RECURSIVE _check_label_style_of(_)
_check_label_style_of(nodes) ==
    IF nodes = <<>> THEN <<>>
    ELSE LET node == Head(nodes)
         IN  (IF node.label # None /\ node.label # "" /\ Len(node.label) > MaxLabelLength
              THEN <<ValidationIssue("info",
                                     Message("Long label", <<node.id, label_prefix(node.label)>>, <<>>),
                                     node.id, L_label_length)>>
              ELSE <<>>)
             \o _check_label_style_of(Tail(nodes))

_check_label_style(diagram) == _check_label_style_of(diagram.nodes)

\* re.match(r"^n\d+$", id): n, then digits to the end of the string, where $
\* also matches before a newline that ends the string.
generic_pattern(id) ==
    LET end == IF Len(id) > 0 /\ char_at(id, Len(id)) = "\n" THEN Len(id) - 1 ELSE Len(id)
    IN  /\ end >= 2
        /\ char_at(id, 1) = "n"
        /\ \A i \in 2..end : IsDigit(char_at(id, i))

RECURSIVE count_generic(_, _)
count_generic(generic_count, nodes) ==
    IF nodes = <<>> THEN generic_count
    ELSE count_generic(IF generic_pattern(Head(nodes).id) THEN generic_count + 1
                       ELSE generic_count, Tail(nodes))

_check_naming_conventions(diagram) ==
    LET generic_count == count_generic(0, diagram.nodes)
    IN  IF generic_count > MaxGeneric
        THEN <<ValidationIssue("info",
                               Message("Many generic node IDs", <<>>, <<generic_count>>),
                               None, L_naming_conventions)>>
        ELSE <<>>

\* not value, for the values a title takes here: None and the empty string.
falsy(value) == value = None \/ value = ""

_check_metadata(diagram) ==
    IF (~\E item \in diagram.metadata : item[1] = "title")
       \/ (\E item \in diagram.metadata : item[1] = "title" /\ falsy(item[2]))
    THEN <<ValidationIssue("info",
                           Message("Consider adding a title to the diagram", <<>>, <<>>),
                           None, L_metadata_title)>>
    ELSE <<>>

\* DiagramLinter.lint
lint(diagram) ==
    _check_label_style(diagram) \o _check_naming_conventions(diagram) \o _check_metadata(diagram)

(***************************************************************************)
(* The state machine diagram (StateMachine): transitions and simulate.     *)
(***************************************************************************)

Transition(from_state, trigger, to_state) ==
    [from_state |-> from_state, trigger |-> trigger, to_state |-> to_state]

\* sm.add_transition(from_state, trigger, to_state)
add_transition(machine, from_state, trigger, to_state) ==
    Append(machine, Transition(from_state, trigger, to_state))

\* The inner loop of simulate: the target of the first transition, in
\* insertion order, from current_state on event; None when there is none.
RECURSIVE first_target(_, _, _)
first_target(machine, current_state, event) ==
    IF machine = <<>> THEN None
    ELSE IF Head(machine).from_state = current_state /\ Head(machine).trigger = event
         THEN Head(machine).to_state
         ELSE first_target(Tail(machine), current_state, event)

\* f"<error: no transition for {event} from {current_state}>"
error_marker(event, current_state) ==
    "<error: no transition for " \o event \o " from " \o current_state \o ">"

\* 'if next_state:' : None and the empty string are false.
truthy(next_state) == next_state # None /\ next_state # ""

\* The outer loop of simulate.
RECURSIVE simulate_each(_, _, _, _)
simulate_each(machine, current_state, visited, events) ==
    IF events = <<>> THEN visited
    ELSE LET next_state == first_target(machine, current_state, Head(events))
         IN  IF truthy(next_state)
             THEN simulate_each(machine, next_state, Append(visited, next_state), Tail(events))
             ELSE Append(visited, error_marker(Head(events), current_state))

simulate(machine, initial_state, events) ==
    simulate_each(machine, initial_state, <<initial_state>>, events)

(***************************************************************************)
(* The transition system: objects are built by the add_ calls, then one    *)
(* operation is applied to them and its outcome recorded.                  *)
(***************************************************************************)

NoChanges == DiagramChanges(<<>>, <<>>, <<>>, <<>>, <<>>, <<>>)

NoResult == [is_valid |-> TRUE, issues |-> <<>>]

NoArg ==
    [strategy |-> "", rules |-> <<>>, default |-> FALSE,
     engine |-> LayoutEngine("", HierarchicalLayout("TB", 100, 150)),
     initial_state |-> "", events |-> <<>>]

\* Each diagram is born with its own title.
Init ==
    /\ diagrams = [s \in Slots |-> DiagramIR({<<"title", s>>})]
    /\ op = "none"
    /\ arg = NoArg
    /\ result = NoResult
    /\ changes = NoChanges
    /\ merged = Returned(DiagramIR(NoMetadata))
    /\ positions = Returned(<<>>)
    /\ lint_issues = <<>>
    /\ transitions = <<>>
    /\ path = <<>>

AddNode(slot, universe, budget) ==
    /\ op = "none"
    /\ TotalSize < budget
    /\ \E node \in universe :
          diagrams' = [diagrams EXCEPT ![slot] = add_node(@, node)]
    /\ UNCHANGED <<op, arg, result, changes, merged, positions, lint_issues, transitions, path>>

AddEdge(slot, universe, budget) ==
    /\ op = "none"
    /\ TotalSize < budget
    /\ \E edge \in universe :
          diagrams' = [diagrams EXCEPT ![slot] = add_edge(@, edge)]
    /\ UNCHANGED <<op, arg, result, changes, merged, positions, lint_issues, transitions, path>>

\* changes = DiagramDiff().compare(d1, d2)
Compare ==
    /\ op = "none"
    /\ \E c \in compare(diagrams["d1"], diagrams["d2"]) : changes' = c
    /\ op' = "compare"
    /\ UNCHANGED <<diagrams, arg, result, merged, positions, lint_issues, transitions, path>>

\* The four strategies of merge, and names that are none of them.
Strategies == {"ours", "theirs", "union", "intersection", "rebase", "Union", ""}

\* A merge that builds the union inside branch1 instead of a new diagram.
MergeInPlace ==
    /\ op = "none"
    /\ \E strategy \in Strategies :
          /\ \E m \in merge(diagrams["base"], diagrams["d1"], diagrams["d2"], strategy) :
                /\ merged' = m
                /\ diagrams' = IF strategy = "union"
                               THEN [diagrams EXCEPT !["d1"] = m.value]
                               ELSE diagrams
          /\ arg' = [NoArg EXCEPT !.strategy = strategy]
    /\ op' = "merge"
    /\ UNCHANGED <<result, changes, positions, lint_issues, transitions, path>>

\* merged = DiagramDiff().merge(base, d1, d2, strategy)
Merge ==
    /\ op = "none"
    /\ \E strategy \in Strategies :
          /\ \E m \in merge(diagrams["base"], diagrams["d1"], diagrams["d2"], strategy) :
                merged' = m
          /\ arg' = [NoArg EXCEPT !.strategy = strategy]
    /\ op' = "merge"
    /\ UNCHANGED <<diagrams, result, changes, positions, lint_issues, transitions, path>>

\* Rule names that are not registered: thresholds, a malformed one, an unknown one.
N_max_nodes_1 ==
    <<"m", "a", "x", "-", "n", "o", "d", "e", "s", "-", "1">>

N_max_edges_1 ==
    <<"m", "a", "x", "-", "e", "d", "g", "e", "s", "-", "1">>

N_max_nodes_many ==
    <<"m", "a", "x", "-", "n", "o", "d", "e", "s", "-", "m", "a", "n", "y">>

N_no_such_rule ==
    <<"n", "o", "-", "s", "u", "c", "h", "-", "r", "u", "l", "e">>

N_max_nodes_minus_1 ==
    <<"m", "a", "x", "-", "n", "o", "d", "e", "s", "-", "-", "1">>

N_max_edges_02 ==
    <<"m", "a", "x", "-", "e", "d", "g", "e", "s", "-", "0", "2">>

N_max_edges_none ==
    <<"m", "a", "x", "-", "e", "d", "g", "e", "s", "-">>

N_max_edges_1_5 ==
    <<"m", "a", "x", "-", "e", "d", "g", "e", "s", "-", "1", ".", "5">>

RuleNames ==
    Range(registered_rules)
    \cup {N_max_nodes_1, N_max_edges_1, N_max_nodes_many, N_no_such_rule,
          N_max_edges_none, N_max_edges_1_5, N_max_nodes_minus_1, N_max_edges_02}

PairNames ==
    {R_no_orphaned_nodes, R_no_cycles, R_unique_labels, N_max_nodes_1, N_no_such_rule,
     N_max_nodes_many}

\* The rule lists validate is called with.
RuleLists ==
    {<<>>, registered_rules}
    \cup {<<r>> : r \in RuleNames}
    \cup {<<r1, r2>> : r1 \in PairNames, r2 \in PairNames}

Rules(list) == [default |-> FALSE, list |-> list]

NoRules == [default |-> TRUE, list |-> <<>>]

\* result = DiagramValidator().validate(d1, rules), or validate(d1) for NoRules
Validate ==
    /\ op = "none"
    /\ \E rules \in {Rules(l) : l \in RuleLists} \cup {NoRules} :
          /\ \E r \in validate(diagrams["d1"], rules) : result' = r
          /\ arg' = [NoArg EXCEPT !.rules = rules.list, !.default = rules.default]
    /\ op' = "validate"
    /\ UNCHANGED <<diagrams, changes, merged, positions, lint_issues, transitions, path>>

AddValNode == AddNode("d1", ValNodes, MaxValItems)

AddValEdge == AddEdge("d1", ValEdges, MaxValItems)

NextValidate == AddValNode \/ AddValEdge \/ Validate

SpecValidate == Init /\ [][NextValidate]_vars

\* changes = DiagramDiff().compare(d1, d1)
CompareSelf ==
    /\ op = "none"
    /\ \E c \in compare(diagrams["d1"], diagrams["d1"]) : changes' = c
    /\ op' = "compare_self"
    /\ UNCHANGED <<diagrams, arg, result, merged, positions, lint_issues, transitions, path>>

AddDiffNode == \E slot \in {"d1", "d2"} : AddNode(slot, DiffNodes, MaxCompareItems)

AddDiffEdge == \E slot \in {"d1", "d2"} : AddEdge(slot, DiffEdges, MaxCompareItems)

Next == AddDiffNode \/ AddDiffEdge \/ Compare \/ CompareSelf

Spec == Init /\ [][Next]_vars

AddMergeNode == \E slot \in Slots : AddNode(slot, DiffNodes, MaxMergeItems)

AddMergeEdge == \E slot \in Slots : AddEdge(slot, DiffEdges, MaxMergeItems)

NextMerge == AddMergeNode \/ AddMergeEdge \/ Merge

SpecMerge == Init /\ [][NextMerge]_vars

\* The nodes and edges of the diagrams that are laid out: a chain, a cycle, a
\* self-loop and an edge to an id that is no node.
LayoutNodes ==
    {Node(id, "L", "process", NoMetadata) : id \in {"a", "b", "c"}}

LayoutEdges ==
    {Edge(e[1], e[2], None, "normal") :
        e \in {<<"a", "b">>, <<"b", "c">>, <<"c", "a">>, <<"a", "a">>, <<"a", "z">>}}

Directions == {"TB", "BT", "LR", "RL"}

\* The algorithm selectors: the four of apply, and names that are none of them.
Algorithms == {"force-directed", "hierarchical", "circular", "grid", "spiral", "Grid"}

\* Engines are built with the default spacings or a narrower layer spacing;
\* only the hierarchical layout takes parameters.
Engines ==
    {LayoutEngine(algorithm, HierarchicalLayout("TB", 100, 150)) :
        algorithm \in Algorithms \ {"hierarchical"}}
    \cup {LayoutEngine("hierarchical", HierarchicalLayout(direction, layer_spacing, 150)) :
             direction \in Directions, layer_spacing \in {100, 40}}

\* positions = LayoutEngine(algorithm, **params).apply(d1)
Apply ==
    /\ op = "none"
    /\ \E engine \in Engines :
          /\ \E p \in apply(engine, diagrams["d1"]) : positions' = p
          /\ arg' = [NoArg EXCEPT !.engine = engine]
    /\ op' = "apply"
    /\ UNCHANGED <<diagrams, result, changes, merged, lint_issues, transitions, path>>

AddLayoutNode == AddNode("d1", LayoutNodes, MaxLayoutItems)

AddLayoutEdge == AddEdge("d1", LayoutEdges, MaxLayoutItems)

NextLayout == AddLayoutNode \/ AddLayoutEdge \/ Apply

SpecLayout == Init /\ [][NextLayout]_vars

\* The edges of the diagrams laid out in layers: a chain a -> b -> c, the
\* shortcut a -> c and the edge c -> a that closes a cycle.
LayerEdges ==
    {Edge(e[1], e[2], None, "normal") :
        e \in {<<"a", "b">>, <<"b", "c">>, <<"a", "c">>, <<"c", "a">>}}

\* positions = LayoutEngine("hierarchical", direction=...).apply(d1)
ApplyHierarchical ==
    /\ op = "none"
    /\ \E direction \in Directions :
          LET engine == LayoutEngine("hierarchical", HierarchicalLayout(direction, 100, 150))
          IN  /\ \E p \in apply(engine, diagrams["d1"]) : positions' = p
              /\ arg' = [NoArg EXCEPT !.engine = engine]
    /\ op' = "apply"
    /\ UNCHANGED <<diagrams, result, changes, merged, lint_issues, transitions, path>>

AddLayerNode == AddNode("d1", LayoutNodes, MaxLayerItems)

AddLayerEdge == AddEdge("d1", LayerEdges, MaxLayerItems)

NextLayers == AddLayerNode \/ AddLayerEdge \/ ApplyHierarchical

SpecLayers == Init /\ [][NextLayers]_vars

\* The states and triggers of the door lock, and a state with an empty name.
StateNames == {"locked", "unlocked"}

Triggers == {"unlock", "lock"}

EventLists == UNION {[1..n -> Triggers] : n \in 0..MaxEvents}

\* sm.add_transition(from_state, trigger, to_state)
AddTransition ==
    /\ op = "none"
    /\ Len(transitions) < MaxTransitions
    /\ \E from_state \in StateNames, trigger \in Triggers, to_state \in StateNames \cup {""} :
          transitions' = add_transition(transitions, from_state, trigger, to_state)
    /\ UNCHANGED <<diagrams, op, arg, result, changes, merged, positions, lint_issues, path>>

\* path = sm.simulate(initial_state, events)
Simulate ==
    /\ op = "none"
    /\ \E initial_state \in StateNames, events \in EventLists :
          /\ path' = simulate(transitions, initial_state, events)
          /\ arg' = [NoArg EXCEPT !.initial_state = initial_state, !.events = events]
    /\ op' = "simulate"
    /\ UNCHANGED <<diagrams, result, changes, merged, positions, lint_issues, transitions>>

NextSimulate == AddTransition \/ Simulate

SpecSimulate == Init /\ [][NextSimulate]_vars

\* The nodes of the diagrams laid out on a grid.
GridNodes ==
    {Node(id, "G", "process", NoMetadata) : id \in {"a", "b", "c", "d", "e", "f"}}

\* positions = LayoutEngine("grid").apply(d1)
ApplyGrid ==
    /\ op = "none"
    /\ LET engine == LayoutEngine("grid", HierarchicalLayout("TB", 100, 150))
       IN  /\ \E p \in apply(engine, diagrams["d1"]) : positions' = p
           /\ arg' = [NoArg EXCEPT !.engine = engine]
    /\ op' = "apply"
    /\ UNCHANGED <<diagrams, result, changes, merged, lint_issues, transitions, path>>

AddGridNode == AddNode("d1", GridNodes, MaxGridNodes)

NextGrid == AddGridNode \/ ApplyGrid

SpecGrid == Init /\ [][NextGrid]_vars

\* Labels of 50 and of 51 characters.
Label50 == "xxxxxxxxxxxxxxxxxxxxxxxxxxxxxxxxxxxxxxxxxxxxxxxxxx"

Label51 == "yyyyyyyyyyyyyyyyyyyyyyyyyyyyyyyyyyyyyyyyyyyyyyyyyyy"

\* The nodes of the diagrams that are linted: generic and other ids, with
\* long, short, empty and missing labels.
LintNodes ==
    {Node("n1", Label51, "process", NoMetadata),
     Node("n22", Label50, "process", NoMetadata),
     Node("n1\n", None, "process", NoMetadata),
     Node("nx1", "", "process", NoMetadata),
     Node("n", Label51, "process", NoMetadata)}

\* The metadata of the diagrams that are linted.
LintMetadata ==
    {NoMetadata, {<<"title", "">>}, {<<"title", None>>}, {<<"title", "Flow">>},
     {<<"author", "me">>}}

InitLint ==
    /\ diagrams \in {[s \in Slots |-> DiagramIR(IF s = "d1" THEN m ELSE {<<"title", s>>})] :
                        m \in LintMetadata}
    /\ op = "none"
    /\ arg = NoArg
    /\ result = NoResult
    /\ changes = NoChanges
    /\ merged = Returned(DiagramIR(NoMetadata))
    /\ positions = Returned(<<>>)
    /\ lint_issues = <<>>
    /\ transitions = <<>>
    /\ path = <<>>

\* lint_issues = DiagramLinter().lint(d1)
Lint ==
    /\ op = "none"
    /\ lint_issues' = lint(diagrams["d1"])
    /\ op' = "lint"
    /\ UNCHANGED <<diagrams, arg, result, changes, merged, positions, transitions, path>>

AddLintNode == AddNode("d1", LintNodes, MaxLintItems)

NextLint == AddLintNode \/ Lint

SpecLint == InitLint /\ [][NextLint]_vars

\* The nodes and edges of the diagrams on which every operation is run.
PureNodes ==
    {Node("a", "A", "process", NoMetadata), Node("b", "A", "start", NoMetadata)}

PureEdges ==
    {Edge("a", "b", None, "normal"), Edge("b", "b", "yes", "conditional")}

AddPureNode == \E slot \in Slots : AddNode(slot, PureNodes, MaxPureItems)

AddPureEdge == \E slot \in Slots : AddEdge(slot, PureEdges, MaxPureItems)

NextPure == AddPureNode \/ AddPureEdge \/ Validate \/ Lint \/ Compare \/ Merge \/ Apply

SpecPure == Init /\ [][NextPure]_vars

\* The nodes and edges of the diagrams on which the structural rules are run:
\* a start node, two process nodes and an end node; a 2-cycle, a 3-cycle and
\* a self-loop.
RuleNodes ==
    {Node("a", "A", "start", NoMetadata), Node("b", "B", "process", NoMetadata),
     Node("c", "C", "process", NoMetadata), Node("c", "C", "end", NoMetadata)}

RuleEdges ==
    {Edge(e[1], e[2], None, "normal") :
        e \in {<<"a", "b">>, <<"b", "a">>, <<"b", "c">>, <<"c", "a">>, <<"a", "a">>}}

StructuralRuleLists ==
    {<<R_no_cycles>>, <<R_no_orphaned_nodes>>, <<R_no_cycles, R_no_orphaned_nodes>>}

\* result = DiagramValidator().validate(d1, rules) for the structural rules
ValidateStructure ==
    /\ op = "none"
    /\ \E list \in StructuralRuleLists :
          /\ \E r \in validate(diagrams["d1"], Rules(list)) : result' = r
          /\ arg' = [NoArg EXCEPT !.rules = list]
    /\ op' = "validate"
    /\ UNCHANGED <<diagrams, changes, merged, positions, lint_issues, transitions, path>>

AddRuleNode == AddNode("d1", RuleNodes, MaxRuleItems)

AddRuleEdge == AddEdge("d1", RuleEdges, MaxRuleItems)

NextRules == AddRuleNode \/ AddRuleEdge \/ ValidateStructure

SpecRules == Init /\ [][NextRules]_vars

(***************************************************************************)
(* Properties.                                                             *)
(***************************************************************************)

d1 == diagrams["d1"]

d2 == diagrams["d2"]

base == diagrams["base"]

UniqueIds(diagram) == Cardinality(NodeIds(diagram)) = Len(diagram.nodes)

NodeWithId(diagram, id) == CHOOSE n \in Range(diagram.nodes) : n.id = id

\* The last node of diagram with this id.
LastWithId(diagram, id) ==
    diagram.nodes[CHOOSE i \in 1..Len(diagram.nodes) :
                    /\ diagram.nodes[i].id = id
                    /\ \A j \in (i + 1)..Len(diagram.nodes) : diagram.nodes[j].id # id]

IdsOf(nodes) == {nodes[i].id : i \in 1..Len(nodes)}

\* The identity of an edge in a diff: (source, target, label-or-empty, kind).
KeyOf(e) == <<e.source, e.target, IF e.label = None THEN "" ELSE e.label, e.edge_type>>

KeysOf(edges) == {KeyOf(edges[i]) : i \in 1..Len(edges)}

\* The i-th smallest member of a set of numbers.
Nth(S, i) == CHOOSE x \in S : Cardinality({y \in S : y < x}) = i - 1

MaxOf(m, n) == IF m < n THEN n ELSE m

UnionMerged == op = "merge" /\ arg.strategy = "union"

IntersectionMerged == op = "merge" /\ arg.strategy = "intersection"

\* C1: validate(D, R).is_valid is true if and only if no returned issue has
\* severity error, for every rule list R and for R omitted; issues of severity
\* warning or info never make is_valid false.
C1_ValidIffNoError ==
    op = "validate" =>
        /\ result.is_valid <=> errors(result) = <<>>
        /\ (\A i \in 1..Len(result.issues) :
                result.issues[i].severity \in {"warning", "info"}) => result.is_valid

C1_Witness ==
    /\ op = "validate"
    /\ result.is_valid
    /\ \E i \in 1..Len(result.issues) : result.issues[i].severity = "warning"
    /\ \E i \in 1..Len(result.issues) : result.issues[i].severity = "info"

\* C2, as claimed: validate called without a rule list runs exactly the pair
\* no-orphaned-nodes, no-cycles, so no issue of another rule is in the result.
C2_DefaultIsBaselinePair ==
    (op = "validate" /\ arg.default) =>
        \A i \in 1..Len(result.issues) :
            result.issues[i].rule \in {R_no_orphaned_nodes, R_no_cycles}

\* C2, amended: validate called without a rule list runs every registered rule in
\* registration order: it returns what validate returns for the list of the
\* nine registered names.
C2_DefaultRunsEveryRegisteredRule ==
    (op = "validate" /\ arg.default) =>
        result \in validate(d1, Rules(<<R_no_orphaned_nodes, R_no_cycles,
                                        R_require_start_end, R_max_complexity,
                                        R_unique_node_ids, R_unique_labels, R_valid_edges,
                                        R_no_self_loops, R_connected_graph>>))

C2_Witness ==
    /\ op = "validate" /\ arg.default
    /\ \E i \in 1..Len(result.issues) : result.issues[i].rule = R_valid_edges
    /\ \E i \in 1..Len(result.issues) : result.issues[i].rule = R_no_self_loops
    /\ \E i \in 1..Len(result.issues) : result.issues[i].rule = R_no_cycles

\* C3: compare(D, D) has no added, removed or modified node or edge (has_changes
\* is false, total_changes is 0), also when D has duplicate node ids, repeated
\* edges or edges whose endpoints are no nodes.
C3_CompareSelfEmpty ==
    op = "compare_self" =>
        /\ changes = NoChanges
        /\ ~has_changes(changes)
        /\ total_changes(changes) = 0

C3_Witness ==
    /\ op = "compare_self"
    /\ Len(d1.nodes) = 2 /\ d1.nodes[1].id = d1.nodes[2].id /\ d1.nodes[1] # d1.nodes[2]
    /\ Len(d1.edges) = 2 /\ d1.edges[1] = d1.edges[2]
    /\ d1.edges[1].target \notin NodeIds(d1)

\* C4: the ids of compare(D1, D2).added_nodes are the ids of
\* compare(D2, D1).removed_nodes, and both report D2's node for each such id.
C4_AddedIsReverseRemoved ==
    op = "compare" =>
        \A reverse \in compare(d2, d1) :
            /\ IdsOf(changes.added_nodes) = IdsOf(reverse.removed_nodes)
            /\ Range(changes.added_nodes) = Range(reverse.removed_nodes)
            /\ Range(changes.added_nodes) \subseteq Range(d2.nodes)

C4_Witness ==
    /\ op = "compare"
    /\ Len(changes.added_nodes) = 1
    /\ NodeIds(d1) \cap NodeIds(d2) # {}

\* C5: with unique node ids in both versions, an id of both versions is in
\* modified_nodes iff its label, kind or metadata differs by value; it is there
\* once, as the pair (old node, new node); an id of one version only is not there.
C5_ModifiedNodes ==
    (op = "compare" /\ UniqueIds(d1) /\ UniqueIds(d2)) =>
        LET M == changes.modified_nodes
        IN  /\ \A id \in NodeIds(d1) \cap NodeIds(d2) :
                  LET n1 == NodeWithId(d1, id)
                      n2 == NodeWithId(d2, id)
                      at == {i \in 1..Len(M) : M[i][1].id = id \/ M[i][2].id = id}
                  IN  /\ at # {} <=> \/ n1.label # n2.label
                                     \/ n1.node_type # n2.node_type
                                     \/ n1.metadata # n2.metadata
                      /\ Cardinality(at) <= 1
                      /\ \A i \in at : M[i] = <<n1, n2>>
            /\ \A i \in 1..Len(M) :
                  /\ M[i][1].id \in NodeIds(d1) \cap NodeIds(d2)
                  /\ M[i][2].id \in NodeIds(d1) \cap NodeIds(d2)

C5_Witness ==
    /\ op = "compare" /\ UniqueIds(d1) /\ UniqueIds(d2)
    /\ Len(changes.modified_nodes) = 1
    /\ changes.modified_nodes[1][1].label = changes.modified_nodes[1][2].label
    /\ changes.modified_nodes[1][1].node_type = changes.modified_nodes[1][2].node_type
    /\ Len(changes.added_nodes) = 1

\* C6: added_edges has exactly one edge per key (source, target, label-or-empty,
\* kind) of new that old lacks, removed_edges one per key of old that new lacks;
\* so a changed label is one removal plus one addition, an absent and an empty
\* label are the same edge, and modified_edges is always empty.
C6_EdgesByKey ==
    op = "compare" =>
        /\ KeysOf(changes.added_edges) = KeysOf(d2.edges) \ KeysOf(d1.edges)
        /\ Len(changes.added_edges) = Cardinality(KeysOf(changes.added_edges))
        /\ Range(changes.added_edges) \subseteq Range(d2.edges)
        /\ KeysOf(changes.removed_edges) = KeysOf(d1.edges) \ KeysOf(d2.edges)
        /\ Len(changes.removed_edges) = Cardinality(KeysOf(changes.removed_edges))
        /\ Range(changes.removed_edges) \subseteq Range(d1.edges)
        /\ changes.modified_edges = <<>>

C6_Witness ==
    /\ op = "compare"
    /\ Range(d1.edges) = {Edge("a", "a", None, "normal"), Edge("a", "a", "yes", "normal")}
    /\ Range(d2.edges) = {Edge("a", "a", "", "normal"), Edge("a", "a", None, "conditional")}
    /\ changes.removed_edges = <<Edge("a", "a", "yes", "normal")>>
    /\ changes.added_edges = <<Edge("a", "a", None, "conditional")>>

\* C7, as claimed: a union merge has at least max(number of nodes of branch1,
\* number of nodes of branch2) nodes, duplicate ids included, and holds every
\* node id of either branch.
C7_UnionAtLeastMaxNodes ==
    UnionMerged =>
        /\ Len(merged.value.nodes) >= MaxOf(Len(d1.nodes), Len(d2.nodes))
        /\ NodeIds(d1) \cup NodeIds(d2) \subseteq NodeIds(merged.value)

\* C7, amended: a union merge has at least max(number of distinct node ids of
\* branch1, number of distinct node ids of branch2) nodes and holds every node
\* id of either branch.
C7_UnionAtLeastMaxIds ==
    UnionMerged =>
        /\ Len(merged.value.nodes)
              >= MaxOf(Cardinality(NodeIds(d1)), Cardinality(NodeIds(d2)))
        /\ NodeIds(d1) \cup NodeIds(d2) \subseteq NodeIds(merged.value)

C7_Witness ==
    /\ UnionMerged
    /\ Len(d1.nodes) = 2 /\ ~UniqueIds(d1)
    /\ Len(d2.nodes) = 1 /\ NodeIds(d2) # NodeIds(d1)
    /\ Len(merged.value.nodes) = 2

\* C8: a union merge has exactly one node per id of base, branch1 or branch2 and
\* no other node; the node of an id is branch2's if branch2 has the id, else
\* branch1's, else base's (the last one of that id there).
C8_UnionNodes ==
    UnionMerged =>
        LET nodes == merged.value.nodes
        IN  /\ IdsOf(nodes) = NodeIds(base) \cup NodeIds(d1) \cup NodeIds(d2)
            /\ Len(nodes) = Cardinality(IdsOf(nodes))
            /\ \A i \in 1..Len(nodes) :
                  nodes[i] = IF nodes[i].id \in NodeIds(d2) THEN LastWithId(d2, nodes[i].id)
                             ELSE IF nodes[i].id \in NodeIds(d1)
                                  THEN LastWithId(d1, nodes[i].id)
                             ELSE LastWithId(base, nodes[i].id)

C8_Witness ==
    /\ UnionMerged
    /\ Len(base.nodes) = 2 /\ Len(d1.nodes) = 1 /\ Len(d2.nodes) = 1
    /\ base.nodes[1].id = "a" /\ base.nodes[2].id = "b"
    /\ d1.nodes[1].id = "a" /\ d2.nodes[1].id = "a"
    /\ base.nodes[1] # d1.nodes[1] /\ d1.nodes[1] # d2.nodes[1] /\ base.nodes[1] # d2.nodes[1]
    /\ merged.value.nodes = <<d2.nodes[1], base.nodes[2]>>

\* C9: the edges of a union merge are the first occurrences of each key (source,
\* target, label-or-empty, kind) in base's edges followed by branch1's and
\* branch2's, in the order of that scan; no two of them share a key.
C9_UnionEdges ==
    UnionMerged =>
        LET scan == base.edges \o d1.edges \o d2.edges
            first == {i \in 1..Len(scan) : \A j \in 1..(i - 1) : KeyOf(scan[j]) # KeyOf(scan[i])}
            kept == merged.value.edges
        IN  /\ Len(kept) = Cardinality(first)
            /\ Cardinality(KeysOf(kept)) = Len(kept)
            /\ \A i \in 1..Len(kept) : kept[i] = scan[Nth(first, i)]

C9_Witness ==
    /\ UnionMerged
    /\ base.edges = <<Edge("a", "a", None, "normal")>>
    /\ d1.edges = <<Edge("a", "a", "", "normal")>>
    /\ d2.edges = <<Edge("a", "a", "yes", "normal"), Edge("a", "b", None, "normal")>>
    /\ merged.value.edges = <<Edge("a", "a", None, "normal"), Edge("a", "a", "yes", "normal"),
                              Edge("a", "b", None, "normal")>>

\* C10: an intersection merge has exactly the node ids of both branch1 and
\* branch2, with branch1's nodes, whatever base holds; each of its edges is an
\* edge of branch1 whose (source, target) is also in branch2 and whose ends are
\* both among its nodes: it has no dangling edge.
C10_Intersection ==
    IntersectionMerged =>
        LET m == merged.value
        IN  /\ NodeIds(m) = NodeIds(d1) \cap NodeIds(d2)
            /\ Range(m.nodes) \subseteq Range(d1.nodes)
            /\ \A i \in 1..Len(m.edges) :
                  /\ m.edges[i] \in Range(d1.edges)
                  /\ \E j \in 1..Len(d2.edges) :
                        /\ d2.edges[j].source = m.edges[i].source
                        /\ d2.edges[j].target = m.edges[i].target
                  /\ m.edges[i].source \in NodeIds(m)
                  /\ m.edges[i].target \in NodeIds(m)
            /\ m \in _merge_intersection([base EXCEPT !.nodes = <<>>, !.edges = <<>>], d1, d2)

C10_Witness ==
    /\ IntersectionMerged
    /\ Len(merged.value.edges) = 1
    /\ Len(merged.value.nodes) = 1
    /\ d1.edges # d2.edges
    /\ d1.nodes # d2.nodes

KnownStrategies == {"ours", "theirs", "union", "intersection"}

\* C11: merge with a strategy name other than ours, theirs, union or
\* intersection raises ValueError and returns no diagram, whatever the three
\* diagrams are; with ours it returns branch1 and with theirs branch2, with
\* the same nodes, edges and metadata they had.
C11_UnknownStrategyRaises ==
    op = "merge" =>
        /\ arg.strategy \notin KnownStrategies => merged = Raised("ValueError")
        /\ arg.strategy \in KnownStrategies => merged.raised = ""
        /\ arg.strategy = "ours" => merged = Returned(d1)
        /\ arg.strategy = "theirs" => merged = Returned(d2)

\* merge was called with an unknown strategy on non-empty branches that differ.
C11_Witness ==
    /\ op = "merge"
    /\ arg.strategy = "rebase"
    /\ merged.raised = "ValueError"
    /\ Len(d1.nodes) > 0
    /\ Len(d2.edges) > 0
    /\ Len(base.nodes) > 0

KnownAlgorithms == {"force-directed", "hierarchical", "circular", "grid"}

\* C12: apply on an engine whose algorithm is none of force-directed,
\* hierarchical, circular, grid raises ValueError for every diagram, the
\* empty one included, and returns no coordinate map.
C12_UnknownAlgorithmRaises ==
    (op = "apply" /\ arg.engine.algorithm \notin KnownAlgorithms) =>
        positions = Failed("ValueError")

\* apply was called with an unknown algorithm on the empty diagram.
C12_Witness ==
    /\ op = "apply"
    /\ arg.engine.algorithm = "spiral"
    /\ d1.nodes = <<>>
    /\ d1.edges = <<>>
    /\ positions.raised = "ValueError"

\* The text after the last hyphen is an integer: digits, with an optional sign.
IntegerText(s) ==
    LET body == IF s # <<>> /\ Head(s) \in {"+", "-"} THEN Tail(s) ELSE s
    IN  body # <<>> /\ \A i \in 1..Len(body) : IsDigit(body[i])

Parameterized(name) == startswith(name, P_max_nodes) \/ startswith(name, P_max_edges)

\* A name validate has to skip: neither registered nor a threshold rule, or a
\* threshold rule whose threshold is no integer.
Skipped(name) ==
    IF Parameterized(name) THEN ~IntegerText(last_segment(name))
    ELSE name \notin Range(registered_rules)

\* The list without its p-th name.
Without(list, p) == SubSeq(list, 1, p - 1) \o SubSeq(list, p + 1, Len(list))

\* C13: a rule list with an unknown name, or with a max-nodes- / max-edges-
\* name whose last segment is no integer, at any position gives what the list
\* without that name gives: the same is_valid and the same issues.
C13_SkippedNameChangesNothing ==
    (op = "validate" /\ ~arg.default) =>
        \A p \in 1..Len(arg.rules) :
            Skipped(arg.rules[p]) =>
                /\ result \in validate(d1, Rules(Without(arg.rules, p)))
                /\ validate(d1, Rules(arg.rules)) = validate(d1, Rules(Without(arg.rules, p)))

\* validate ran a rule that reports issues behind a malformed threshold name.
C13_Witness ==
    /\ op = "validate"
    /\ arg.rules = <<N_max_nodes_many, R_no_orphaned_nodes>>
    /\ result.issues # <<>>

\* The integer written after the prefix of a threshold rule name, sign included.
WrittenThreshold(name) ==
    LET text == SubSeq(name, Len(P_max_nodes) + 1, Len(name))
        negative == text # <<>> /\ Head(text) = "-"
        body == IF text # <<>> /\ Head(text) \in {"+", "-"} THEN Tail(text) ELSE text
    IN  IF negative THEN 0 - digits_value(0, body) ELSE digits_value(0, body)

WritesThreshold(name) ==
    /\ Parameterized(name)
    /\ IntegerText(SubSeq(name, Len(P_max_nodes) + 1, Len(name)))

\* What the threshold rule counts: nodes for max-nodes-N, edges for max-edges-N.
Counted(name) ==
    IF startswith(name, P_max_nodes) THEN Len(d1.nodes) ELSE Len(d1.edges)

\* C14: validate with the single rule max-nodes-N (max-edges-N), N an
\* integer, returns exactly one issue, of severity error, when the diagram has
\* more than N nodes (edges) and no issue otherwise, N being the integer
\* written in the rule name.
C14_ThresholdIsWrittenInteger ==
    (op = "validate" /\ ~arg.default /\ Len(arg.rules) = 1 /\ WritesThreshold(arg.rules[1])) =>
        IF Counted(arg.rules[1]) > WrittenThreshold(arg.rules[1])
        THEN Len(result.issues) = 1 /\ result.issues[1].severity = "error"
        ELSE result.issues = <<>>

\* C14, for the names whose integer is written without a minus sign:
\* validate with the single rule max-nodes-N (max-edges-N) returns exactly one
\* error, carrying the count and N, when the diagram has more than N nodes
\* (edges), and no issue otherwise.
C14_ThresholdIsUnsignedInteger ==
    (/\ op = "validate" /\ ~arg.default /\ Len(arg.rules) = 1
     /\ WritesThreshold(arg.rules[1])
     /\ WrittenThreshold(arg.rules[1]) >= 0) =>
        IF Counted(arg.rules[1]) > WrittenThreshold(arg.rules[1])
        THEN /\ Len(result.issues) = 1
             /\ result.issues[1].severity = "error"
             /\ result.issues[1].message.nums
                    = <<Counted(arg.rules[1]), WrittenThreshold(arg.rules[1])>>
        ELSE result.issues = <<>>

\* validate ran max-edges-02 on a diagram with three edges and reported the
\* one error max-edges-2.
C14_Witness ==
    /\ op = "validate"
    /\ arg.rules = <<N_max_edges_02>>
    /\ Len(d1.edges) = 3
    /\ Len(result.issues) = 1
    /\ result.issues[1].severity = "error"
    /\ result.issues[1].rule = P_max_edges \o <<"2">>

\* The id is the letter n followed by one or more digits.
NThenDigits(id) ==
    /\ Len(id) >= 2
    /\ char_at(id, 1) = "n"
    /\ \A i \in 2..Len(id) : IsDigit(char_at(id, i))

TitleOf(diagram) == {item[2] : item \in {it \in diagram.metadata : it[1] = "title"}}

Reports(issues, rule) == \E i \in 1..Len(issues) : issues[i].rule = rule

AllInfo(issues) == \A i \in 1..Len(issues) : issues[i].severity = "info"

TitleReportedIffMissing ==
    Reports(lint_issues, L_metadata_title) <=> (TitleOf(d1) \subseteq {"", None})

\* C15: every issue of lint has severity info; the metadata-title issue is
\* reported exactly when the title is missing or empty, and the
\* naming-conventions issue exactly when more than 5 nodes have an id that is
\* n followed by digits.
C15_LintIsInfoOnly ==
    op = "lint" =>
        /\ AllInfo(lint_issues)
        /\ TitleReportedIffMissing
        /\ Reports(lint_issues, L_naming_conventions)
               <=> Cardinality({i \in 1..Len(d1.nodes) : NThenDigits(d1.nodes[i].id)}) > 5

\* What lint does report: info issues only, the title issue when the title is
\* missing, None or empty, and the naming issue when more than 5 nodes have
\* an id that the pattern of the linter accepts.
LintFollowsPattern ==
    op = "lint" =>
        /\ AllInfo(lint_issues)
        /\ TitleReportedIffMissing
        /\ Reports(lint_issues, L_naming_conventions)
               <=> Cardinality({i \in 1..Len(d1.nodes) : generic_pattern(d1.nodes[i].id)}) > 5

\* lint reported the naming-conventions issue on six nodes of which one has
\* an id that ends with a newline.
C15_Witness ==
    /\ op = "lint"
    /\ Len(d1.nodes) = 6
    /\ Cardinality({i \in 1..Len(d1.nodes) : NThenDigits(d1.nodes[i].id)}) = 5
    /\ Reports(lint_issues, L_naming_conventions)

\* C16: every run of validate on the same diagram with the same rule list
\* returns the same result: the same is_valid and the same issues, with the
\* same severities, rules, locations and messages, in the same order.
C16_ValidateDeterministic ==
    op = "validate" =>
        validate(d1, [default |-> arg.default, list |-> arg.rules]) = {result}

\* validate ran connected-graph on a diagram with two disconnected nodes.
C16_Witness ==
    /\ op = "validate"
    /\ arg.rules = <<R_connected_graph>>
    /\ Cardinality(disconnected_ids(d1)) = 2
    /\ Len(result.issues) = 1

\* Apart from the order in which connected-graph lists the disconnected ids,
\* every run returns the same result.
ValidateDeterministicUpToListing ==
    op = "validate" =>
        \A r \in validate(d1, [default |-> arg.default, list |-> arg.rules]) :
            /\ r.is_valid = result.is_valid
            /\ Len(r.issues) = Len(result.issues)
            /\ \A i \in 1..Len(r.issues) :
                  /\ r.issues[i].severity = result.issues[i].severity
                  /\ r.issues[i].rule = result.issues[i].rule
                  /\ r.issues[i].location = result.issues[i].location
                  /\ r.issues[i].message.text = result.issues[i].message.text
                  /\ r.issues[i].message.nums = result.issues[i].message.nums
                  /\ Range(r.issues[i].message.ids) = Range(result.issues[i].message.ids)

\* The members of a layer in the order in which their ids were first inserted.
InInsertionOrder(members, nodes) ==
    LET ids == ids_in_order(<<>>, nodes)
        kept == {i \in 1..Len(ids) : ids[i] \in members}
    IN  [k \in 1..Cardinality(kept) |-> ids[Nth(kept, k)]]

\* The layers of _assign_layers, each listed in insertion order.
RECURSIVE InsertionLayers(_, _, _, _)
InsertionLayers(diagram, nodes, remaining, processed) ==
    IF remaining = {} THEN <<>>
    ELSE LET members == layer_members(nodes, diagram.edges, remaining, processed)
         IN  <<InInsertionOrder(members, diagram.nodes)>>
             \o InsertionLayers(diagram, nodes, remaining \ members, processed \cup members)

\* The coordinate map of the hierarchical layout with insertion order inside layers.
InsertionOrderMap(layout, diagram) ==
    _position_nodes(layout, InsertionLayers(diagram, NodeIds(diagram), NodeIds(diagram), {}))

Applied(algorithm) == op = "apply" /\ arg.engine.algorithm = algorithm

\* C17: the hierarchical, circular and grid layouts return the same coordinate
\* map on every call for a fixed diagram, and the hierarchical layout places
\* the nodes of a layer (the collapsed layer of a cyclic graph included) in
\* node insertion order.
C17_LayoutDeterministic ==
    /\ (Applied("hierarchical") \/ Applied("circular") \/ Applied("grid")) =>
           apply(arg.engine, d1) = {positions}
    /\ (Applied("hierarchical") /\ d1.nodes # <<>>) =>
           Range(positions.value) = Range(InsertionOrderMap(arg.engine.params, d1))

\* The hierarchical layout placed two nodes in one layer.
C17_Witness ==
    /\ Applied("hierarchical")
    /\ arg.engine.params.direction = "TB"
    /\ Len(positions.value) = 2
    /\ positions.value[1][2][2] = positions.value[2][2][2]

\* The circular and the grid layout return one coordinate map, and so does the
\* hierarchical layout when no two nodes share a layer.
LayoutDeterministicOutsideLayers ==
    /\ (Applied("circular") \/ Applied("grid")) => apply(arg.engine, d1) = {positions}
    /\ (/\ Applied("hierarchical")
        /\ arg.engine.params.direction \in {"TB", "BT"}
        /\ \A i, j \in 1..Len(positions.value) :
              i # j => positions.value[i][2][2] # positions.value[j][2][2])
       => apply(arg.engine, d1) = {positions}

\* C18: for a diagram with no nodes, apply returns the empty map and raises
\* nothing under force-directed, hierarchical, circular and grid.
C18_NoNodesEmptyMap ==
    (op = "apply" /\ arg.engine.algorithm \in KnownAlgorithms /\ d1.nodes = <<>>) =>
        positions = Returned(<<>>)

\* The force-directed layout was applied to a diagram with an edge and no node.
C18_Witness ==
    /\ Applied("force-directed")
    /\ d1.nodes = <<>>
    /\ d1.edges # <<>>
    /\ positions.raised = "KeyError"

\* Without nodes the hierarchical, circular and grid layouts return the empty
\* map, and so does the force-directed layout when there is no edge either.
NoNodesEmptyMapButForce ==
    (/\ op = "apply" /\ arg.engine.algorithm \in KnownAlgorithms /\ d1.nodes = <<>>
     /\ (arg.engine.algorithm = "force-directed" => d1.edges = <<>>)) =>
        positions = Returned(<<>>)

\* The ways to read the diagram as a chain: an order of its nodes, all of
\* distinct ids, such that the edges are exactly the steps of that order.
ChainsOf(diagram) ==
    {chain \in Orderings(NodeIds(diagram)) :
        /\ UniqueIds(diagram)
        /\ Len(diagram.edges) = Len(chain) - 1
        /\ {<<diagram.edges[i].source, diagram.edges[i].target>> : i \in 1..Len(diagram.edges)}
               = {<<chain[i], chain[i + 1]>> : i \in 1..(Len(chain) - 1)}}

XOf(id) == DictGet(positions.value, id)[1]

YOf(id) == DictGet(positions.value, id)[2]

\* C19: for a chain n1 -> n2 -> ... -> nk of distinct nodes and no other edge,
\* the hierarchical layout puts every node alone in a layer, in chain order;
\* top-to-bottom gives equal x and strictly increasing y along the chain,
\* bottom-to-top strictly decreasing y, and left-to-right / right-to-left the
\* same with x and y exchanged.
C19_ChainLayout ==
    (Applied("hierarchical") /\ d1.nodes # <<>>) =>
        \A chain \in ChainsOf(d1) :
            LET direction == arg.engine.params.direction
                steps == 1..(Len(chain) - 1)
            IN  /\ _assign_layers(NodeIds(d1), d1.edges) = {[i \in 1..Len(chain) |-> <<chain[i]>>]}
                /\ positions.raised = ""
                /\ DictKeys(positions.value) = NodeIds(d1)
                /\ direction = "TB" =>
                      \A i \in steps : /\ XOf(chain[i]) = XOf(chain[i + 1])
                                       /\ YOf(chain[i]) < YOf(chain[i + 1])
                /\ direction = "BT" =>
                      \A i \in steps : /\ XOf(chain[i]) = XOf(chain[i + 1])
                                       /\ YOf(chain[i]) > YOf(chain[i + 1])
                /\ direction = "LR" =>
                      \A i \in steps : /\ YOf(chain[i]) = YOf(chain[i + 1])
                                       /\ XOf(chain[i]) < XOf(chain[i + 1])
                /\ direction = "RL" =>
                      \A i \in steps : /\ YOf(chain[i]) = YOf(chain[i + 1])
                                       /\ XOf(chain[i]) > XOf(chain[i + 1])

\* The bottom-to-top layout of the chain b -> c -> a, whose nodes were
\* inserted in another order.
C19_Witness ==
    /\ Applied("hierarchical")
    /\ arg.engine.params.direction = "BT"
    /\ <<"b", "c", "a">> \in ChainsOf(d1)
    /\ d1.nodes[1].id = "a"
    /\ YOf("b") = 250 /\ YOf("c") = 150 /\ YOf("a") = 50
    /\ XOf("a") = 225

Operations == {"validate", "lint", "compare", "merge", "apply"}

\* C20: validate, lint, compare, merge (every strategy) and apply (every
\* algorithm) leave their input diagrams as they were: the nodes, the edges
\* and the metadata of each diagram are the same after the call as before.
C20_InputsUnchanged ==
    [][op' \in Operations =>
          \A slot \in Slots :
              /\ diagrams'[slot].nodes = diagrams[slot].nodes
              /\ diagrams'[slot].edges = diagrams[slot].edges
              /\ diagrams'[slot].metadata = diagrams[slot].metadata]_vars

\* A union merge of two non-empty branches returned a diagram that is
\* neither branch.
C20_Witness ==
    /\ UnionMerged
    /\ d1.nodes # <<>>
    /\ d2.nodes # <<>>
    /\ merged.value # d1
    /\ merged.value # d2

\* The ids an edge of the diagram leads to from id, in one step.
StepsFrom(diagram, id) ==
    {diagram.edges[i].target : i \in {j \in 1..Len(diagram.edges) : diagram.edges[j].source = id}}

\* The ids reached from the set S in at most n steps.
RECURSIVE ReachedWithin(_, _, _)
ReachedWithin(diagram, S, n) ==
    IF n = 0 THEN S
    ELSE ReachedWithin(diagram, S \cup UNION {StepsFrom(diagram, id) : id \in S}, n - 1)

\* The ids on some directed cycle of the edges.
OnCycle(diagram) ==
    {id \in {diagram.edges[i].source : i \in 1..Len(diagram.edges)} :
        id \in ReachedWithin(diagram, StepsFrom(diagram, id), Len(diagram.edges))}

EdgePairs(diagram) ==
    {<<diagram.edges[i].source, diagram.edges[i].target>> : i \in 1..Len(diagram.edges)}

\* The diagram is the 3-cycle a -> b, b -> c, c -> a on its three nodes.
IsThreeCycle(diagram) ==
    /\ Len(diagram.nodes) = 3 /\ NodeIds(diagram) = {"a", "b", "c"}
    /\ Len(diagram.edges) = 3
    /\ EdgePairs(diagram) = {<<"a", "b">>, <<"b", "c">>, <<"c", "a">>}

NoCyclesRan == op = "validate" /\ ~arg.default /\ arg.rules = <<R_no_cycles>>

\* C21: cycle detection ends on every diagram; it reports the 3-cycle
\* a -> b, b -> c, c -> a once, as one cycle through a, b and c, and reports
\* the self-loop of a node as a cycle; no-cycles gives one error for each
\* reported cycle, so the diagram is invalid exactly when a cycle is
\* reported, and a diagram without directed cycle gets no issue.
C21_CyclesReportedOnce ==
    NoCyclesRan =>
        LET cycles == find_cycles(d1)
        IN  /\ Len(result.issues) = Len(cycles)
            /\ \A i \in 1..Len(cycles) :
                  /\ result.issues[i].severity = "error"
                  /\ result.issues[i].rule = R_no_cycles
                  /\ result.issues[i].message.ids = cycles[i]
            /\ result.is_valid <=> cycles = <<>>
            /\ IsThreeCycle(d1) => Len(cycles) = 1 /\ Range(cycles[1]) = {"a", "b", "c"}
            /\ \A id \in NodeIds(d1) :
                  <<id, id>> \in EdgePairs(d1) => \E i \in 1..Len(cycles) : cycles[i] = <<id, id>>
            /\ OnCycle(d1) = {} => result.issues = <<>>
            /\ (OnCycle(d1) \cap NodeIds(d1)) # {} => ~result.is_valid

\* no-cycles ran on the 3-cycle whose nodes were inserted as c, a, b.
C21_Witness ==
    /\ NoCyclesRan
    /\ IsThreeCycle(d1)
    /\ d1.nodes[1].id = "c"
    /\ Len(result.issues) = 1
    /\ ~result.is_valid

\* The positions of the nodes that no edge names and that are neither start
\* nor end.
Orphans(diagram) ==
    {i \in 1..Len(diagram.nodes) :
        /\ \A e \in EdgePairs(diagram) : diagram.nodes[i].id \notin {e[1], e[2]}
        /\ diagram.nodes[i].node_type \notin {"start", "end"}}

\* The diagram is start, process, orphan with start -> process -> start.
IsOrphanExample(diagram) ==
    /\ Len(diagram.nodes) = 3
    /\ diagram.nodes[1].id = "a" /\ diagram.nodes[1].node_type = "start"
    /\ diagram.nodes[2].id = "b" /\ diagram.nodes[2].node_type = "process"
    /\ diagram.nodes[3].id = "c" /\ diagram.nodes[3].node_type = "process"
    /\ Len(diagram.edges) = 2
    /\ EdgePairs(diagram) = {<<"a", "b">>, <<"b", "a">>}

NoOrphansRan == op = "validate" /\ ~arg.default /\ arg.rules = <<R_no_orphaned_nodes>>

CyclesAndOrphansRan ==
    op = "validate" /\ ~arg.default /\ arg.rules = <<R_no_cycles, R_no_orphaned_nodes>>

\* C22: no-orphaned-nodes gives one warning for each node that is on no edge
\* and is neither a start nor an end node, and nothing else, so it never makes
\* a diagram invalid; the diagram start, process, orphan with
\* start -> process -> start is invalid under no-cycles and no-orphaned-nodes,
\* with an error and a warning.
C22_OneWarningPerOrphan ==
    /\ NoOrphansRan =>
          /\ Len(result.issues) = Cardinality(Orphans(d1))
          /\ \A id \in NodeIds(d1) :
                Cardinality({k \in 1..Len(result.issues) : result.issues[k].location = id})
                    = Cardinality({i \in Orphans(d1) : d1.nodes[i].id = id})
          /\ \A k \in 1..Len(result.issues) :
                /\ result.issues[k].severity = "warning"
                /\ result.issues[k].rule = R_no_orphaned_nodes
          /\ result.is_valid
    /\ CyclesAndOrphansRan /\ IsOrphanExample(d1) =>
          /\ ~result.is_valid
          /\ Len(errors(result)) >= 1
          /\ Len(warnings(result)) >= 1

\* Both rules ran on the example diagram: one error for the cycle, one
\* warning for the orphan.
C22_Witness ==
    /\ CyclesAndOrphansRan
    /\ IsOrphanExample(d1)
    /\ Len(errors(result)) = 1
    /\ Len(warnings(result)) = 1
    /\ warnings(result)[1].location = "c"

\* The ids of the first n layers.
PlacedBefore(layers, n) == UNION {Range(layers[k]) : k \in 1..(n - 1)}

\* The node has no incoming edge from a node outside placed.
Free(diagram, id, placed) ==
    \A e \in EdgePairs(diagram) :
        e[2] = id => e[1] \notin (NodeIds(diagram) \ placed)

\* The layer lists the hierarchical layout may build for d1.
LayersOf(diagram) == _assign_layers(NodeIds(diagram), diagram.edges)

\* C23: layer assignment ends on every diagram, cyclic, self-looped or
\* disconnected: no layer is empty, every node id is in exactly one layer, a
\* layer built while some remaining node is free holds exactly the free nodes,
\* and when no remaining node is free all that remain form one last layer.
C23_LayersPartitionNodes ==
    (Applied("hierarchical") /\ d1.nodes # <<>>) =>
        /\ LayersOf(d1) # {}
        /\ \A layers \in LayersOf(d1) :
              /\ Len(layers) <= Cardinality(NodeIds(d1))
              /\ \A k \in 1..Len(layers) : layers[k] # <<>>
              /\ \A id \in NodeIds(d1) :
                    Cardinality({<<k, i>> \in (1..Len(layers)) \X (1..Cardinality(NodeIds(d1))) :
                                    i <= Len(layers[k]) /\ layers[k][i] = id}) = 1
              /\ UNION {Range(layers[k]) : k \in 1..Len(layers)} = NodeIds(d1)
              /\ \A k \in 1..Len(layers) :
                    LET placed == PlacedBefore(layers, k)
                        remaining == NodeIds(d1) \ placed
                        free == {id \in remaining : Free(d1, id, placed)}
                    IN  IF free = {}
                        THEN k = Len(layers) /\ Range(layers[k]) = remaining
                        ELSE Range(layers[k]) = free

\* The hierarchical layout ran on nodes a, b, c with c -> a and a self-loop on
\* a: b and c are free and form the first layer, then no node is free and a,
\* all that remains, forms the last layer.
C23_Witness ==
    /\ Applied("hierarchical")
    /\ NodeIds(d1) = {"a", "b", "c"}
    /\ EdgePairs(d1) = {<<"c", "a">>, <<"a", "a">>}
    /\ \E layers \in LayersOf(d1) : Len(layers) = 2 /\ layers[2] = <<"a">>
    /\ DictGet(positions.value, "a")[2] # DictGet(positions.value, "b")[2]

\* The node ids with an edge to id.
NodePreds(diagram, id) ==
    {e[1] : e \in {p \in EdgePairs(diagram) : p[2] = id /\ p[1] \in NodeIds(diagram)}}

\* The number of edges of the longest directed path of nodes ending at id, in
\* a diagram without directed cycle.
RECURSIVE LongestTo(_, _)
LongestTo(diagram, id) ==
    IF NodePreds(diagram, id) = {} THEN 0
    ELSE LET lengths == {LongestTo(diagram, pred) : pred \in NodePreds(diagram, id)}
         IN  1 + CHOOSE n \in lengths : \A m \in lengths : m <= n

\* The index, from 0, of the layer that holds id.
LayerIndex(layers, id) ==
    (CHOOSE k \in 1..Len(layers) : id \in Range(layers[k])) - 1

\* C25: in a diagram without directed cycle (so without self-loop) the source
\* of every edge between two nodes lies in a strictly earlier layer than its
\* target, and the layer index of a node is the length of the longest directed
\* path ending at it; top to bottom, the layer index is the row of the node.
C25_LayersFollowEdges ==
    (Applied("hierarchical") /\ d1.nodes # <<>> /\ OnCycle(d1) = {}) =>
        /\ \A layers \in LayersOf(d1) :
              /\ \A e \in EdgePairs(d1) :
                    (e[1] \in NodeIds(d1) /\ e[2] \in NodeIds(d1)) =>
                        LayerIndex(layers, e[1]) < LayerIndex(layers, e[2])
              /\ \A id \in NodeIds(d1) : LayerIndex(layers, id) = LongestTo(d1, id)
        /\ arg.engine.params.direction = "TB" =>
              \A id \in NodeIds(d1) : YOf(id) = 50 + 100 * LongestTo(d1, id)

\* The layout ran top to bottom on a -> b -> c with the shortcut a -> c: c is
\* two layers below a, not one.
C25_Witness ==
    /\ Applied("hierarchical")
    /\ arg.engine.params.direction = "TB"
    /\ NodeIds(d1) = {"a", "b", "c"}
    /\ EdgePairs(d1) = {<<"a", "b">>, <<"b", "c">>, <<"a", "c">>}
    /\ YOf("a") = 50 /\ YOf("b") = 150 /\ YOf("c") = 250

\* The ids joined to those of S by at most n edges, taken in either direction.
RECURSIVE JoinedWithin(_, _, _)
JoinedWithin(diagram, S, n) ==
    IF n = 0 THEN S
    ELSE JoinedWithin(diagram,
                      S \cup {e[2] : e \in {p \in EdgePairs(diagram) : p[1] \in S}}
                        \cup {e[1] : e \in {p \in EdgePairs(diagram) : p[2] \in S}},
                      n - 1)

\* The nodes not reachable from the first node over the undirected edges.
Unreachable(diagram) ==
    NodeIds(diagram) \ JoinedWithin(diagram, {diagram.nodes[1].id}, Len(diagram.edges))

\* Some edge names an id that is not a node.
HasDanglingEdge(diagram) ==
    \E e \in EdgePairs(diagram) : e[1] \notin NodeIds(diagram) \/ e[2] \notin NodeIds(diagram)

ConnectedGraphRan == op = "validate" /\ ~arg.default /\ arg.rules = <<R_connected_graph>>

\* C24: on a diagram with nodes, dangling edges or not, connected-graph gives
\* exactly one warning when some node is not reachable from the first node over
\* the undirected edges and no issue when every node is reachable; on the
\* empty diagram it gives nothing.
C24_WarnsIffUnreachable ==
    ConnectedGraphRan =>
        IF d1.nodes = <<>> THEN result.issues = <<>>
        ELSE IF Unreachable(d1) # {}
             THEN Len(result.issues) = 1 /\ result.issues[1].severity = "warning"
             ELSE result.issues = <<>>

\* connected-graph ran on a diagram whose first node has a dangling edge and
\* whose other node is unreachable, and gave no issue.
C24_Witness ==
    /\ ConnectedGraphRan
    /\ Len(d1.nodes) = 2
    /\ Unreachable(d1) # {}
    /\ HasDanglingEdge(d1)
    /\ result.issues = <<>>

\* Without dangling edges connected-graph warns exactly when a node is
\* unreachable; with them it never warns when every node is reachable.
WarnsIffUnreachableWithoutDangling ==
    ConnectedGraphRan =>
        IF d1.nodes = <<>> THEN result.issues = <<>>
        ELSE /\ Unreachable(d1) = {} => result.issues = <<>>
             /\ (Unreachable(d1) # {} /\ ~HasDanglingEdge(d1)) =>
                   Len(result.issues) = 1 /\ result.issues[1].severity = "warning"
             /\ result.issues # <<>> => Unreachable(d1) # {}

FourAlgorithms == {"force-directed", "hierarchical", "circular", "grid"}

\* C26: for a diagram with unique node ids, cyclic or with dangling edges,
\* each of the four algorithms returns, without error, a map whose keys are
\* exactly the node ids.
C26_LayoutMapsEveryNode ==
    (op = "apply" /\ arg.engine.algorithm \in FourAlgorithms /\ UniqueIds(d1)) =>
        /\ positions.raised = ""
        /\ DictKeys(positions.value) = NodeIds(d1)

\* The force-directed layout ran on a node with a dangling edge and raised.
C26_Witness ==
    /\ Applied("force-directed")
    /\ UniqueIds(d1)
    /\ Len(d1.nodes) = 2
    /\ HasDanglingEdge(d1)
    /\ positions.raised = "KeyError"

\* The map has exactly the node ids as keys under the three other algorithms,
\* and under the force-directed one when no edge is dangling.
LayoutMapsEveryNodeButForceDangling ==
    (op = "apply" /\ arg.engine.algorithm \in FourAlgorithms /\ UniqueIds(d1)
        /\ (Applied("force-directed") => ~HasDanglingEdge(d1))) =>
        /\ positions.raised = ""
        /\ DictKeys(positions.value) = NodeIds(d1)

\* The rule name of a list can be the producer of the issue.
Produces(name, issue) ==
    IF startswith(name, P_max_nodes) THEN startswith(issue.rule, P_max_nodes)
    ELSE IF startswith(name, P_max_edges) THEN startswith(issue.rule, P_max_edges)
    ELSE issue.rule = name

\* The issues can be given producers at positions p, p + 1, ... of the list
\* that never step back.
RECURSIVE FollowsListFrom(_, _, _)
FollowsListFrom(issues, list, p) ==
    IF issues = <<>> THEN TRUE
    ELSE IF p > Len(list) THEN FALSE
    ELSE IF Produces(list[p], Head(issues)) THEN FollowsListFrom(Tail(issues), list, p)
    ELSE FollowsListFrom(issues, list, p + 1)

\* s is t with some entries left out.
RECURSIVE IsSubsequence(_, _)
IsSubsequence(s, t) ==
    IF s = <<>> THEN TRUE
    ELSE IF t = <<>> THEN FALSE
    ELSE IF Head(s) = Head(t) THEN IsSubsequence(Tail(s), Tail(t))
    ELSE IsSubsequence(s, Tail(t))

\* The issues of one rule, in the order of the result.
RECURSIVE IssuesOf(_, _)
IssuesOf(issues, rule) ==
    IF issues = <<>> THEN <<>>
    ELSE (IF Head(issues).rule = rule THEN <<Head(issues)>> ELSE <<>>)
         \o IssuesOf(Tail(issues), rule)

\* The endpoints of the edges: source, target, source, target, ...
RECURSIVE Endpoints(_)
Endpoints(edges) ==
    IF edges = <<>> THEN <<>>
    ELSE <<Head(edges).source, Head(edges).target>> \o Endpoints(Tail(edges))

\* The issues of each rule that reports per node or per edge follow the
\* insertion order of the nodes or edges, the rule being run once.
WithinRuleInsertionOrder ==
    (\A p, q \in 1..Len(arg.rules) : arg.rules[p] = arg.rules[q] => p = q) =>
    LET ids == [i \in 1..Len(d1.nodes) |-> d1.nodes[i].id]
        labels == [i \in 1..Len(d1.nodes) |-> d1.nodes[i].label]
        sources == [i \in 1..Len(d1.edges) |-> d1.edges[i].source]
        Locations(rule) ==
            LET found == IssuesOf(result.issues, rule)
            IN  [i \in 1..Len(found) |-> found[i].location]
        Named(rule) ==
            LET found == IssuesOf(result.issues, rule)
            IN  [i \in 1..Len(found) |-> found[i].message.ids[1]]
    IN  /\ IsSubsequence(Locations(R_no_orphaned_nodes), ids)
        /\ IsSubsequence(Locations(R_unique_node_ids), ids)
        /\ IsSubsequence(Locations(R_no_self_loops), sources)
        /\ IsSubsequence(Named(R_valid_edges), Endpoints(d1.edges))
        /\ IsSubsequence(Named(R_unique_labels), labels)

ListValidated == op = "validate" /\ ~arg.default

\* C27: the issues of validate(D, R) are ordered by the position in R of the
\* rule that produced them, parameterized or registered, and the issues of one
\* rule follow the insertion order of the nodes or edges.
C27_IssuesFollowRuleList ==
    ListValidated =>
        /\ FollowsListFrom(result.issues, arg.rules, 1)
        /\ WithinRuleInsertionOrder

\* validate ran no-orphaned-nodes and then max-nodes-1 on two orphan nodes: the
\* issue of max-nodes-1 comes first.
C27_Witness ==
    /\ ListValidated
    /\ arg.rules = <<R_no_orphaned_nodes, N_max_nodes_1>>
    /\ Len(result.issues) = 3
    /\ startswith(result.issues[1].rule, P_max_nodes)
    /\ result.issues[2].rule = R_no_orphaned_nodes

\* The names of the list that are parameterized, then those that are not, each
\* group in list order.
RECURSIVE ParameterizedOf(_, _)
ParameterizedOf(list, wanted) ==
    IF list = <<>> THEN <<>>
    ELSE (IF (startswith(Head(list), P_max_nodes) \/ startswith(Head(list), P_max_edges)) = wanted
          THEN <<Head(list)>> ELSE <<>>)
         \o ParameterizedOf(Tail(list), wanted)

\* The issues follow the order in which the rules are run: the parameterized
\* rules of the list first, then the registered ones, each group in list
\* order; within one rule they follow insertion order.
IssuesFollowRunOrder ==
    ListValidated =>
        /\ FollowsListFrom(result.issues,
                           ParameterizedOf(arg.rules, TRUE) \o ParameterizedOf(arg.rules, FALSE), 1)
        /\ WithinRuleInsertionOrder

Simulated == op = "simulate"

\* The text is an error marker of simulate.
IsErrorMarker(text) == Len(text) >= 7 /\ SubSeq(text, 1, 7) = "<error:"

\* The positions of the transitions from the state on the event.
Matching(state, event) ==
    {i \in 1..Len(transitions) :
        transitions[i].from_state = state /\ transitions[i].trigger = event}

\* The first matching transition, in insertion order.
FirstMatching(state, event) ==
    transitions[CHOOSE i \in Matching(state, event) : \A j \in Matching(state, event) : i <= j]

\* The path is the run of the machine on the events: it starts with the
\* initial state, every event met moves to the target of the first matching
\* transition, and the first event without one ends the path with one error
\* marker; so the path has at most one entry per event after the first, only
\* its last entry can be an error marker, and it has an entry for every event
\* when all of them match.
PathFollowsTransitions ==
    /\ Len(path) >= 1
    /\ path[1] = arg.initial_state
    /\ Len(path) <= Len(arg.events) + 1
    /\ \A i \in 1..(Len(path) - 1) :
          /\ ~IsErrorMarker(path[i])
          /\ IF Matching(path[i], arg.events[i]) # {}
             THEN path[i + 1] = FirstMatching(path[i], arg.events[i]).to_state
             ELSE IsErrorMarker(path[i + 1]) /\ i + 1 = Len(path)
    /\ ~IsErrorMarker(path[Len(path)]) => Len(path) = Len(arg.events) + 1

\* C28: simulate(s0, events) returns a path that starts with s0, consumes the
\* events in order, moves on each to the target of the first matching
\* transition, and at the first event without transition appends one error
\* marker and stops.
C28_SimulateFollowsTransitions == Simulated => PathFollowsTransitions

\* simulate met an event whose first matching transition leads to the state
\* with the empty name, and ended the path with an error marker.
C28_Witness ==
    /\ Simulated
    /\ Len(path) = 2
    /\ Matching(path[1], arg.events[1]) # {}
    /\ FirstMatching(path[1], arg.events[1]).to_state = ""
    /\ IsErrorMarker(path[2])

\* The claim holds whenever no transition leads to a state with an empty name.
SimulateFollowsNamedTargets ==
    (Simulated /\ \A i \in 1..Len(transitions) : transitions[i].to_state # "") =>
        PathFollowsTransitions

\* simulate ran the three events unlock, lock, unlock through the door lock.
DoorLockSimulated ==
    /\ Simulated
    /\ arg.events = <<"unlock", "lock", "unlock">>
    /\ path = <<"locked", "unlocked", "locked", "unlocked">>

\* The coordinates the grid layout gave the nodes, in insertion order.
GridPlaces == [i \in 1..Len(d1.nodes) |-> DictGet(positions.value, d1.nodes[i].id)]

\* C29: for n >= 1 nodes with unique ids the grid layout uses
\* c = ceil(sqrt(n)) columns and puts the i-th node, from 0, at
\* (150 * (i mod c) + 50, 100 * (i div c) + 50); no two nodes share their
\* coordinates, no row holds more than c nodes and at most c rows are used.
C29_GridPlacesByIndex ==
    (Applied("grid") /\ UniqueIds(d1) /\ Len(d1.nodes) >= 1) =>
        LET n == Len(d1.nodes)
            c == CHOOSE k \in 1..n : k * k >= n /\ (k - 1) * (k - 1) < n
            rows == {GridPlaces[i][2] : i \in 1..n}
        IN  /\ positions.raised = ""
            /\ DictKeys(positions.value) = NodeIds(d1)
            /\ \A i \in 0..(n - 1) :
                  GridPlaces[i + 1] = <<150 * (i % c) + 50, 100 * (i \div c) + 50>>
            /\ \A i, j \in 1..n : GridPlaces[i] = GridPlaces[j] => i = j
            /\ \A y \in rows : Cardinality({i \in 1..n : GridPlaces[i][2] = y}) <= c
            /\ Cardinality(rows) <= c

\* The grid layout placed five nodes on three columns and two rows.
C29_Witness ==
    /\ Applied("grid")
    /\ UniqueIds(d1)
    /\ Len(d1.nodes) = 5
    /\ GridPlaces[3] = <<350, 50>>
    /\ GridPlaces[4] = <<50, 150>>
    /\ GridPlaces[5] = <<200, 150>>

\* C30: in compare(old, new) the ids of the added, removed and modified nodes
\* are pairwise disjoint, no added id is in old, no removed id is in new, and
\* the ids of new are those of old without the removed ones plus the added
\* ones; the same holds for the keys of the added and removed edges.
C30_DiffPartitionsIds ==
    op = "compare" =>
        LET A == IdsOf(changes.added_nodes)
            R == IdsOf(changes.removed_nodes)
            M == {changes.modified_nodes[i][1].id : i \in 1..Len(changes.modified_nodes)}
            EA == KeysOf(changes.added_edges)
            ER == KeysOf(changes.removed_edges)
            EM == {KeyOf(changes.modified_edges[i][1]) : i \in 1..Len(changes.modified_edges)}
        IN  /\ A \cap R = {} /\ A \cap M = {} /\ R \cap M = {}
            /\ A \cap NodeIds(d1) = {}
            /\ R \cap NodeIds(d2) = {}
            /\ NodeIds(d2) = (NodeIds(d1) \ R) \cup A
            /\ EA \cap ER = {} /\ EA \cap EM = {} /\ ER \cap EM = {}
            /\ EA \cap KeysOf(d1.edges) = {}
            /\ ER \cap KeysOf(d2.edges) = {}
            /\ KeysOf(d2.edges) = (KeysOf(d1.edges) \ ER) \cup EA

\* compare found an added node, a modified node and a removed edge.
C30_Witness ==
    /\ op = "compare"
    /\ Len(changes.added_nodes) = 1
    /\ Len(changes.modified_nodes) = 1
    /\ Len(changes.removed_edges) = 1
====
